---- MODULE Spec2Model ----
(***************************************************************************)
(* Lifecycle and data synchronisation of CKEditorComponent                 *)
(* (src/ckeditor/esm2020/ckeditor.component.mjs).                          *)
(*                                                                         *)
(* A state is the fields of every component, the `on` map of the one       *)
(* configuration object that components may share, the namespace loader,   *)
(* and the native editors.  The editor constructed by component c's        *)
(* createEditor has the identity c.  Every action is one whole handler     *)
(* (a lifecycle hook, a property setter, a promise continuation or a       *)
(* native callback); `op` names the handler that ran last and `out` lists, *)
(* in order, what that run emitted and which calls it made.                *)
(*                                                                         *)
(* The test tools of src/src/test.tools.ts (the mock of a DataTransfer,    *)
(* setDataMultipleTimes) and the launcher src/scripts/test.js have a       *)
(* specification each, over the variables transfer, job and launcher.      *)
(***************************************************************************)
EXTENDS Integers, Sequences, FiniteSets

\* Number of components of the process.
NumComp == 2

Comp == 1..NumComp
Editor == Comp
NoEditor == 0
Null == "null"

\* Strings written by the host and serializations of the editor.
Raw == "x"
Str == {"", Raw, "<p>x</p>"}

\* The editor's own serialization of a string it was given (ACF, data processor).
\* A null handed to setData leaves the editor empty.
Norm(s) == IF s = Raw THEN "<p>x</p>" ELSE IF s = Null THEN "" ELSE s

Serialized == {Norm(s) : s \in Str}

Flag == {"true", "false"}

\* Native events with a plain forwarder, and those bound to propagateChange.
\* Values of the type input: the two interface modes and a value that is
\* neither; of the tagName input: the default and another element name.
EditorType == {"classic", "inline", "divarea"}
TagName == {"textarea", "div"}

Forwarded == {"focus", "paste", "afterPaste", "dragend", "dragstart", "drop",
              "fileUploadRequest", "fileUploadResponse", "blur"}

\* The output that the forwarder of a native event emits on.
OutputOf(name) ==
    IF name = "dragend" THEN "dragEnd"
    ELSE IF name = "dragstart" THEN "dragStart"
    ELSE name
ChangeEvents == {"change", "dataReady", "selectionCheck"}

VARIABLES
    _data,          \* [Comp -> Str \cup {Null}]   this._data
    _readOnly,      \* [Comp -> Flag \cup {Null}]  this._readOnly
    _destroyed,     \* [Comp -> BOOLEAN]           this._destroyed
    instance,       \* [Comp -> Editor \cup {NoEditor}]  this.instance
    onChange,       \* [Comp -> BOOLEAN]  a callback is registered
    onTouched,      \* [Comp -> BOOLEAN]  a callback is registered
    type,           \* [Comp -> EditorType]  the type input
    tagName,        \* [Comp -> TagName]  the tagName input
    config,         \* [Comp -> 0..2]  0: no config, 1: the config object with an `on` map,
                    \* 2: a config object {delayIfDetached: false} of the component's own
    stage,          \* [Comp -> ...]  position in ngAfterViewInit's promise chain
    onInstanceReady,\* config.on.instanceReady of the config object: [chain, user]
    namespace,      \* "absent" | "loading" | "present"  (window.CKEDITOR)
    loader,         \* component whose onNamespaceLoaded belongs to the running load
    loads,          \* number of script loads that succeeded
    loadedEmits,    \* number of namespaceLoaded emissions, all components
    edStatus,       \* [Editor -> "none" | "constructed" | "ready" | "destroyed"]
    edHandler,      \* [Editor -> handler]  instanceReady listener given at construction
    undoManager,    \* [Editor -> BOOLEAN]  editor.undoManager exists
    content,        \* [Editor -> Str]  what editor.getData() returns
    edReadOnly,     \* [Editor -> Flag]  editor.readOnly
    defaultReadOnly,\* [Editor -> Flag]  editor.readOnly as the editor is constructed
    lock,           \* [Editor -> Nat]  undoManager lock level
    subs,           \* [Editor -> Seq([c, ev])]  listeners added by subscribe
    loading,        \* [Editor -> BOOLEAN]  a setData not applied yet (classic)
    cbs,            \* [Editor -> Seq([c, h])]  pending setData completion callbacks
    written,        \* [Comp -> ...]  the last value written to data while no instance
                    \* existed; Late once a write has reached an instance
    transfer,       \* the object mockNativeDataTransfer() returned: [types, files, _data]
    job,            \* a call of setDataMultipleTimes: its array, timer and promise
    twoWay,         \* [Comp -> BOOLEAN]  the host binds data two-way: its dataChange
                    \* subscriber writes the emitted value back to data
    tally,          \* [Comp -> [createEditor, ready]]  how often createEditor has run and
                    \* ready has been emitted in the component's life
    wait,           \* the promises whenDataReady and whenEvent returned: [dr, editor, ev, comp, name]
    launcher,       \* a run of scripts/test.js: argv, options, env, child, exit code
    op,             \* the handler that ran last: [n, c, a, was, again]
    out,            \* Seq of effects of that run: [k, c, n, a, e]
    ctx             \* Seq as long as out: where each effect happened, [zone, data]

compVars == <<_data, _readOnly, _destroyed, instance, onChange, onTouched, written>>
inputVars == <<type, tagName, config, undoManager, defaultReadOnly, twoWay>>
nsVars == <<namespace, loader, loads, loadedEmits>>
edVars == <<edStatus, edHandler, content, edReadOnly, lock, subs, loading, cbs>>
toolVars == <<transfer, job, launcher>>
vars == <<compVars, inputVars, nsVars, edVars, stage, onInstanceReady, toolVars, wait, tally, op, out, ctx>>

\* A handler value: the wrappers' closures from the outermost in, then the
\* user's own function (user = TRUE) or undefined.
NoHandler == [chain |-> <<>>, user |-> FALSE]
UserHandler == [chain |-> <<>>, user |-> TRUE]

\* One observed effect.  k: "emit" | "call" | "cb" | "dom" | "log" | "throw" |
\* "return" (the value a getter returned) | "resolve" (a promise was resolved).
Effect(k, c, n, a, e) == [k |-> k, c |-> c, n |-> n, a |-> a, e |-> e]

\* The mutable state a handler works on.
World == [
    _data |-> _data, _readOnly |-> _readOnly, _destroyed |-> _destroyed,
    instance |-> instance,
    onInstanceReady |-> onInstanceReady,
    loadedEmits |-> loadedEmits,
    edStatus |-> edStatus, edHandler |-> edHandler, content |-> content,
    edReadOnly |-> edReadOnly, lock |-> lock, subs |-> subs,
    loading |-> loading, cbs |-> cbs,
    wait |-> wait, tally |-> tally,
    err |-> "", out |-> <<>>, zone |-> "ambient", ctx |-> <<>>]

Commit(w) ==
    /\ _data' = w._data
    /\ _readOnly' = w._readOnly
    /\ _destroyed' = w._destroyed
    /\ instance' = w.instance
    /\ onInstanceReady' = w.onInstanceReady
    /\ loadedEmits' = w.loadedEmits
    /\ edStatus' = w.edStatus
    /\ edHandler' = w.edHandler
    /\ content' = w.content
    /\ edReadOnly' = w.edReadOnly
    /\ lock' = w.lock
    /\ subs' = w.subs
    /\ loading' = w.loading
    /\ cbs' = w.cbs
    /\ wait' = w.wait
    /\ tally' = w.tally
    /\ out' = w.out
    /\ ctx' = w.ctx

\* Where an effect happens: the zone the code runs in ("run": inside an
\* ngZone.run, "outside": inside an ngZone.runOutsideAngular, "ambient": the
\* caller's) and what the data getter of the component returns at that moment.
Context(zone, data, c) ==
    [zone |-> zone, data |-> IF c \in Comp THEN data[c] ELSE Null]

\* The tally after effect n of kind k by component c: createEditor starts by
\* appending its element, and ready is an output.
Tally(t, k, c, n) ==
    IF k = "dom" /\ n = "appendChild"
    THEN [t EXCEPT ![c].createEditor = @ + 1]
    ELSE IF k = "emit" /\ n = "ready"
         THEN [t EXCEPT ![c].ready = @ + 1]
         ELSE t

Do(w, k, c, n, a, e) ==
    [w EXCEPT !.out = Append(@, Effect(k, c, n, a, e)),
              !.ctx = Append(@, Context(w.zone, w._data, c)),
              !.tally = Tally(@, k, c, n)]

\* The effects of a step that is written without a world.
Observe(s) ==
    /\ out' = s
    /\ ctx' = [i \in DOMAIN s |-> Context("ambient", _data, s[i].c)]

\* ngZone.run(f) and ngZone.runOutsideAngular(f): f runs on the world entered;
\* the zone of the caller w0 is back when f has returned or thrown.
NgZoneRun(w) == [w EXCEPT !.zone = "run"]
NgZoneRunOutsideAngular(w) == [w EXCEPT !.zone = "outside"]
ZoneLeave(w0, r) == [r EXCEPT !.zone = w0.zone]

\* No call of whenDataReady or whenEvent has been made.
NoWait ==
    [dr |-> "none", editor |-> NoEditor, ev |-> "none", comp |-> 0, name |-> ""]

\* component[evtName].subscribe(res) of whenEvent: res is called at every
\* emission of the output; the first call resolves the promise.
Subscriber(w, c, n, e) ==
    IF w.wait.ev = "pending" /\ w.wait.comp = c /\ w.wait.name = n
    THEN Do([w EXCEPT !.wait.ev = "resolved"], "resolve", c, "whenEvent", n, e)
    ELSE w

\* EventEmitter.emit of output n of component c; a is the value or the native
\* event's name, e the editor of the event.
RECURSIVE SetData(_, _, _)

\* The dataChange subscriber of a host that binds data two-way: inside the
\* emission it writes the emitted value back to the data property.
HostBinding(w, c, n, a) ==
    IF twoWay[c] /\ n = "dataChange"
    THEN Do(SetData(Do(w, "cb", c, "writeBack", a, NoEditor), c, a),
            "return", c, "writeBack", a, NoEditor)
    ELSE w

\* output.emit(a): the subscribers run inside the emission, in the order they
\* subscribed: the host's binding, made when the component was created, before
\* the res of a later whenEvent.
Emit(w, c, n, a, e) ==
    Subscriber(HostBinding(Do(w, "emit", c, n, a, e), c, n, a), c, n, e)


RECURSIVE Fire(_, _, _), Listeners(_, _, _, _), Callbacks(_, _)
RECURSIVE InstanceReadyHandler(_, _, _), SetDataCallback(_, _, _, _)
RECURSIVE SetDataEach(_, _, _)
RECURSIVE Minimist(_, _), JsonItems(_)

----------------------------------------------------------------------------
(* The component's methods *)

\* Faulty propagateChange: the comparison with the cached data is left out.
PropagateChangeAlways(w0, c, name, e) ==
    LET w == NgZoneRun(w0)
        r ==
        IF w.instance[c] = NoEditor
        THEN Do(w, "throw", c, "TypeError", name, e)
        ELSE
            LET newData == w.content[w.instance[c]]
                w1 == IF name = "change" THEN Emit(w, c, "change", name, e)
                      ELSE IF name = "dataReady" THEN Emit(w, c, "dataReady", name, e)
                      ELSE w
                w2 == [w1 EXCEPT !._data[c] = newData]
                w3 == Emit(w2, c, "dataChange", newData, e)
            IN  IF onChange[c]
                THEN Do(w3, "cb", c, "onChange", newData, e)
                ELSE w3
    IN  ZoneLeave(w0, r)

\* Faulty propagateChange: change and dataReady are emitted only after the
\* comparison, so only when the content differs from the cached data.
PropagateChangeQuiet(w0, c, name, e) ==
    LET w == NgZoneRun(w0)
        r ==
        IF w.instance[c] = NoEditor
        THEN Do(w, "throw", c, "TypeError", name, e)
        ELSE
            LET newData == w.content[w.instance[c]]
            IN  IF newData = w._data[c]
                THEN w
                ELSE
                    LET w1 == IF name = "change" THEN Emit(w, c, "change", name, e)
                              ELSE IF name = "dataReady" THEN Emit(w, c, "dataReady", name, e)
                              ELSE w
                        w2 == [w1 EXCEPT !._data[c] = newData]
                        w3 == Emit(w2, c, "dataChange", newData, e)
                    IN  IF onChange[c]
                        THEN Do(w3, "cb", c, "onChange", newData, e)
                        ELSE w3
    IN  ZoneLeave(w0, r)

\* Faulty propagateChange: the registered change callback is not invoked.
PropagateChangeNoCallback(w0, c, name, e) ==
    LET w == NgZoneRun(w0)
        r ==
        IF w.instance[c] = NoEditor
        THEN Do(w, "throw", c, "TypeError", name, e)
        ELSE
            LET newData == w.content[w.instance[c]]
                w1 == IF name = "change" THEN Emit(w, c, "change", name, e)
                      ELSE IF name = "dataReady" THEN Emit(w, c, "dataReady", name, e)
                      ELSE w
            IN  IF newData = w1._data[c]
                THEN w1
                ELSE Emit([w1 EXCEPT !._data[c] = newData], c, "dataChange", newData, e)
    IN  ZoneLeave(w0, r)

\* Faulty propagateChange: dataChange is emitted before the cached data is
\* updated.
PropagateChangeEmitsFirst(w0, c, name, e) ==
    LET w == NgZoneRun(w0)
        r ==
        IF w.instance[c] = NoEditor
        THEN Do(w, "throw", c, "TypeError", name, e)
        ELSE
            LET newData == w.content[w.instance[c]]
                w1 == IF name = "change" THEN Emit(w, c, "change", name, e)
                      ELSE IF name = "dataReady" THEN Emit(w, c, "dataReady", name, e)
                      ELSE w
            IN  IF newData = w1._data[c]
                THEN w1
                ELSE
                    LET w2 == Emit(w1, c, "dataChange", newData, e)
                        w3 == [w2 EXCEPT !._data[c] = newData]
                    IN  IF onChange[c]
                        THEN Do(w3, "cb", c, "onChange", newData, e)
                        ELSE w3
    IN  ZoneLeave(w0, r)

\* propagateChange: the listener of dataReady and of change or selectionCheck.
PropagateChange(w0, c, name, e) ==
    LET w == NgZoneRun(w0)
        r ==
        IF w.instance[c] = NoEditor
        THEN Do(w, "throw", c, "TypeError", name, e)
        ELSE
            LET newData == w.content[w.instance[c]]
                w1 == IF name = "change" THEN Emit(w, c, "change", name, e)
                      ELSE IF name = "dataReady" THEN Emit(w, c, "dataReady", name, e)
                      ELSE w
            IN  IF newData = w1._data[c]
                THEN w1
                ELSE
                    LET w2 == [w1 EXCEPT !._data[c] = newData]
                        w3 == Emit(w2, c, "dataChange", newData, e)
                    IN  IF onChange[c]
                        THEN Do(w3, "cb", c, "onChange", newData, e)
                        ELSE w3
    IN  ZoneLeave(w0, r)

\* Faulty forwarders: the listeners of dragend and dragstart emit on each
\* other's output.
ForwardSwapped(w0, c, name, e) ==
    LET w == NgZoneRun(w0)
        r ==
        LET w1 == IF name = "blur" /\ onTouched[c]
                  THEN Do(w, "cb", c, "onTouched", "", e)
                  ELSE w
            o == IF name = "dragend" THEN "dragStart"
                 ELSE IF name = "dragstart" THEN "dragEnd"
                 ELSE name
        IN  Emit(w1, c, o, name, e)
    IN  ZoneLeave(w0, r)

\* Faulty forwarder of blur: onTouched is called after the emission.
ForwardTouchedLate(w0, c, name, e) ==
    LET w == NgZoneRun(w0)
        r ==
        LET w1 == Emit(w, c, OutputOf(name), name, e)
        IN  IF name = "blur" /\ onTouched[c]
            THEN Do(w1, "cb", c, "onTouched", "", e)
            ELSE w1
    IN  ZoneLeave(w0, r)

\* Faulty forwarder: the emission is made in the zone of the native caller.
ForwardUnzoned(w, c, name, e) ==
    LET w1 == IF name = "blur" /\ onTouched[c]
              THEN Do(w, "cb", c, "onTouched", "", e)
              ELSE w
    IN  Emit(w1, c, OutputOf(name), name, e)

\* A forwarder added by subscribe: blur calls onTouched first.
Forward(w0, c, name, e) ==
    LET w == NgZoneRun(w0)
        r ==
        LET w1 == IF name = "blur" /\ onTouched[c]
                  THEN Do(w, "cb", c, "onTouched", "", e)
                  ELSE w
        IN  Emit(w1, c, OutputOf(name), name, e)
    IN  ZoneLeave(w0, r)

\* Faulty subscribe: the change handler is bound to native change whether or
\* not the instance has an undo manager.
SubscribeChangeOnly(w, c, e) ==
    Do([w EXCEPT !.subs[e] = Append(@, [c |-> c, ev |-> "change"])],
       "call", c, "on", "change", e)

\* subscribe(editor): the forwarders, dataReady, and change or selectionCheck
\* depending on this.instance.undoManager.
Subscribe(w, c, e) ==
    LET ev == IF w.instance[c] # NoEditor /\ undoManager[w.instance[c]]
              THEN "change" ELSE "selectionCheck"
    IN  Do([w EXCEPT !.subs[e] = Append(@, [c |-> c, ev |-> ev])],
           "call", c, "on", ev, e)

\* Faulty readOnly setter: the value is always stored, never handed to the instance.
SetReadOnlyLocal(w, c, isReadOnly) ==
    [w EXCEPT !._readOnly[c] = isReadOnly]

\* set readOnly(isReadOnly)
SetReadOnly(w, c, isReadOnly) ==
    IF w.instance[c] # NoEditor
    THEN Do([w EXCEPT !.edReadOnly[w.instance[c]] = isReadOnly],
            "call", c, "setReadOnly", isReadOnly, w.instance[c])
    ELSE [w EXCEPT !._readOnly[c] = isReadOnly]

\* Faulty readOnly getter: the stored flag is returned even with an instance.
GetReadOnlyLocal(w, c) == w._readOnly[c]

\* get readOnly()
GetReadOnly(w, c) ==
    IF w.instance[c] # NoEditor
    THEN w.edReadOnly[w.instance[c]]
    ELSE w._readOnly[c]

----------------------------------------------------------------------------
(* The native editor, as the component uses it *)

\* editor.setData(v, {callback}): cb is <<>> or one completion callback.  The
\* inline editable applies the data and fires dataReady at once; the classic
\* (iframe) one keeps the given string until its document has loaded.
NativeSetData(w, e, v, cb) ==
    LET w1 == Do([w EXCEPT !.cbs[e] = @ \o cb], "call", 0, "setData", v, e)
    IN  IF type[e] = "inline"
        THEN Fire([w1 EXCEPT !.content[e] = Norm(v)], e, "dataReady")
        ELSE [w1 EXCEPT !.content[e] = IF v = Null THEN "" ELSE v, !.loading[e] = TRUE]

\* editor.destroy(): the editor is gone and so are its listeners.
NativeDestroy(w, e) ==
    Do([w EXCEPT !.edStatus[e] = "destroyed", !.subs[e] = <<>>,
                 !.cbs[e] = <<>>, !.loading[e] = FALSE],
       "call", 0, "destroy", "", e)

\* One listener added by subscribe, called for native event `name`.
Listener(w, s, name, e) ==
    IF name \in Forwarded
    THEN Forward(w, s.c, name, e)
    ELSE IF name = "dataReady" \/ name = s.ev
         THEN PropagateChange(w, s.c, name, e)
         ELSE w

Listeners(w, ls, name, e) ==
    IF ls = <<>>
    THEN w
    ELSE Listeners(Listener(w, Head(ls), name, e), Tail(ls), name, e)

\* The once-listeners of dataReady that setData added for its callbacks.
Callbacks(w, e) ==
    IF w.cbs[e] = <<>>
    THEN w
    ELSE LET cb == Head(w.cbs[e])
         IN  Callbacks(SetDataCallback([w EXCEPT !.cbs[e] = Tail(@)], cb.c, e, cb.h), e)

\* The once-listener of dataReady that whenDataReady added with priority
\* 9999: () => { res() }.
Waiter(w, e) ==
    IF w.wait.dr = "pending" /\ w.wait.editor = e
    THEN Do([w EXCEPT !.wait.dr = "resolved"], "resolve", 0, "whenDataReady", "", e)
    ELSE w

\* editor.fire(name): the listeners by priority and, within a priority, in the
\* order they were added.
Fire(w, e, name) ==
    LET w1 == Listeners(w, w.subs[e], name, e)
    IN  IF name = "dataReady" THEN Waiter(Callbacks(w1, e), e) ELSE w1

----------------------------------------------------------------------------
(* Creation *)

\* The user's instanceReady entry as createEditor found it: another wrapper's
\* handler, the user's function, or nothing.
UserInstanceReadyCallback(w, h, e) ==
    IF h.chain # <<>>
    THEN InstanceReadyHandler(w, h, e)
    ELSE IF h.user
         THEN Do(w, "cb", 0, "userInstanceReady", "instanceReady", e)
         ELSE w

\* Faulty completion: ready is emitted before the user's callback is called.
EmitReadyFirst(w, c, e, h) ==
    ZoneLeave(w, UserInstanceReadyCallback(
                     Emit(NgZoneRun(w), c, "ready", "instanceReady", e), h, e))

\* ngZone.run(() => { userInstanceReadyCallback(evt); this.ready.emit(evt) })
EmitReady(w, c, e, h) ==
    ZoneLeave(w, Emit(UserInstanceReadyCallback(NgZoneRun(w), h, e),
                      c, "ready", "instanceReady", e))

\* Faulty completion callback: the synthetic event is fired without comparing
\* the cached data with the instance's.
SetDataCallbackAlwaysFires(w, c, e, h) ==
    LET w1 == IF undoManager[e]
              THEN Fire(Do(w, "call", c, "fire", "change", e), e, "change")
              ELSE Fire(Do(w, "call", c, "fire", "dataReady", e), e, "dataReady")
        w2 == IF undoManager[e]
              THEN Do([w1 EXCEPT !.lock[e] = IF @ > 0 THEN @ - 1 ELSE 0],
                      "call", c, "unlock", "", e)
              ELSE w1
    IN  EmitReady(w2, c, e, h)

\* Faulty completion callback: it ends without emitting ready.
SetDataCallbackSilent(w, c, e, h) ==
    LET w1 == IF w._data[c] # w.content[e]
              THEN IF undoManager[e]
                   THEN Fire(Do(w, "call", c, "fire", "change", e), e, "change")
                   ELSE Fire(Do(w, "call", c, "fire", "dataReady", e), e, "dataReady")
              ELSE w
    IN  IF undoManager[e]
        THEN Do([w1 EXCEPT !.lock[e] = IF @ > 0 THEN @ - 1 ELSE 0],
                "call", c, "unlock", "", e)
        ELSE w1

\* The completion callback of the initial setData.
SetDataCallback(w, c, e, h) ==
    LET w1 == IF w._data[c] # w.content[e]
              THEN IF undoManager[e]
                   THEN Fire(Do(w, "call", c, "fire", "change", e), e, "change")
                   ELSE Fire(Do(w, "call", c, "fire", "dataReady", e), e, "dataReady")
              ELSE w
        w2 == IF undoManager[e]
              THEN Do([w1 EXCEPT !.lock[e] = IF @ > 0 THEN @ - 1 ELSE 0],
                      "call", c, "unlock", "", e)
              ELSE w1
    IN  EmitReady(w2, c, e, h)

\* Faulty instanceReady handler: the data written before creation is not
\* handed to the editor.
InstanceReadyHandlerNoData(w, h, e) ==
    LET c == Head(h.chain)
        rest == [h EXCEPT !.chain = Tail(@)]
        w1 == [w EXCEPT !.instance[c] = e]
        w2 == SetReadOnly(w1, c, IF w1._readOnly[c] # Null
                                 THEN w1._readOnly[c]
                                 ELSE w1.edReadOnly[w1.instance[c]])
        w3 == Subscribe(w2, c, e)
    IN  EmitReady(w3, c, e, rest)

\* config.on.instanceReady = evt => {...} of the component Head(h.chain); the
\* rest of h is the userInstanceReadyCallback it closed over.
InstanceReadyHandler(w, h, e) ==
    LET c == Head(h.chain)
        rest == [h EXCEPT !.chain = Tail(@)]
        w1 == [w EXCEPT !.instance[c] = e]
        w2 == SetReadOnly(w1, c, IF w1._readOnly[c] # Null
                                 THEN w1._readOnly[c]
                                 ELSE w1.edReadOnly[w1.instance[c]])
        w3 == Subscribe(w2, c, e)
    IN  IF w3._data[c] # Null
        THEN LET w4 == IF undoManager[e]
                       THEN Do([w3 EXCEPT !.lock[e] = @ + 1], "call", c, "lock", "", e)
                       ELSE w3
             IN  NativeSetData(w4, e, w3._data[c], <<[c |-> c, h |-> rest]>>)
        ELSE EmitReady(w3, c, e, rest)

\* { ...defaultConfig, ...this.config }: the delayIfDetached of the merge.
MergedDelayIfDetached(c) == IF config[c] = 2 THEN "false" ELSE "true"

\* Faulty createEditor: the replace entry point is called whatever the type.
CreateEditorAlwaysReplace(w, c, throws) ==
    LET w1 == Do(w, "dom", c, "appendChild", tagName[c], NoEditor)
        userInstanceReadyCallback ==
            IF config[c] = 1 THEN w.onInstanceReady ELSE NoHandler
        h == [userInstanceReadyCallback EXCEPT !.chain = <<c>> \o @]
        w2 == IF config[c] = 1 THEN [w1 EXCEPT !.onInstanceReady = h] ELSE w1
        w3 == Do(w2, "call", c, "replace", MergedDelayIfDetached(c), c)
    IN  IF throws
        THEN [w3 EXCEPT !.err = "constructionError"]
        ELSE [w3 EXCEPT !.edStatus[c] = "constructed", !.edHandler[c] = h]

\* createEditor(): throws = the construction entry point raises.
CreateEditor(w, c, throws) ==
    LET w1 == Do(w, "dom", c, "appendChild", tagName[c], NoEditor)
        userInstanceReadyCallback ==
            IF config[c] = 1 THEN w.onInstanceReady ELSE NoHandler
        h == [userInstanceReadyCallback EXCEPT !.chain = <<c>> \o @]
        w2 == IF config[c] = 1 THEN [w1 EXCEPT !.onInstanceReady = h] ELSE w1
        entry == IF type[c] = "inline" THEN "inline" ELSE "replace"
        w3 == Do(w2, "call", c, entry, MergedDelayIfDetached(c), c)
    IN  IF throws
        THEN [w3 EXCEPT !.err = "constructionError"]
        ELSE [w3 EXCEPT !.edStatus[c] = "constructed", !.edHandler[c] = h]


\* Faulty data setter: no comparison with the cached value.
SetDataUnguarded(w, c, v) ==
    IF w.instance[c] # NoEditor
    THEN LET w1 == NativeSetData(w, w.instance[c], v, <<>>)
         IN  [w1 EXCEPT !._data[c] = w1.content[w.instance[c]]]
    ELSE [w EXCEPT !._data[c] = v]

\* Faulty data setter: the written string is cached, not the instance's
\* serialization of it.
SetDataCachesInput(w, c, v) ==
    IF v = w._data[c]
    THEN w
    ELSE IF w.instance[c] # NoEditor
         THEN [NativeSetData(w, w.instance[c], v, <<>>) EXCEPT !._data[c] = v]
         ELSE [w EXCEPT !._data[c] = v]

\* Faulty data setter: the value is cached and never handed to the instance.
SetDataLocalOnly(w, c, v) ==
    IF v = w._data[c]
    THEN w
    ELSE [w EXCEPT !._data[c] = v]

\* set data(data), also reached through writeValue(value)
SetData(w, c, v) ==
    IF v = w._data[c]
    THEN w
    ELSE IF w.instance[c] # NoEditor
         THEN LET w1 == NativeSetData(w, w.instance[c], v, <<>>)
              IN  [w1 EXCEPT !._data[c] = w1.content[w.instance[c]]]
         ELSE [w EXCEPT !._data[c] = v]

\* Faulty ngOnDestroy: the handle is kept after instance.destroy().
DestroyKeepsHandle(w, c) ==
    LET w1 == NgZoneRunOutsideAngular([w EXCEPT !._destroyed[c] = TRUE])
    IN  ZoneLeave(w, IF w1.instance[c] # NoEditor
                     THEN NativeDestroy(w1, w1.instance[c])
                     ELSE w1)

\* ngOnDestroy()
Destroy(w, c) ==
    LET w1 == NgZoneRunOutsideAngular([w EXCEPT !._destroyed[c] = TRUE])
    IN  ZoneLeave(w, IF w1.instance[c] # NoEditor
                     THEN [NativeDestroy(w1, w1.instance[c]) EXCEPT !.instance[c] = NoEditor]
                     ELSE w1)

----------------------------------------------------------------------------
(* ngAfterViewInit's promise chain *)

\* namespace => { this.namespaceLoaded.emit(namespace) }
OnNamespaceLoaded(w, c) ==
    [Emit(w, c, "namespaceLoaded", "CKEDITOR", NoEditor) EXCEPT !.loadedEmits = @ + 1]

\* Faulty continuation: namespaceLoaded is emitted by every component's
\* continuation.
ThenCallbackEmitting(w, c, throws) ==
    IF w._destroyed[c]
    THEN w
    ELSE ZoneLeave(w, CreateEditor(NgZoneRunOutsideAngular(OnNamespaceLoaded(w, c)),
                                   c, throws))

\* Faulty continuation: the destroyed latch is not consulted.
ThenCallbackUnguarded(w, c, throws) ==
    ZoneLeave(w, CreateEditor(NgZoneRunOutsideAngular(w), c, throws))

\* .then(() => { if (this._destroyed) return; runOutsideAngular(createEditor) })
ThenCallback(w, c, throws) ==
    IF w._destroyed[c]
    THEN w
    ELSE ZoneLeave(w, CreateEditor(NgZoneRunOutsideAngular(w), c, throws))

\* .catch(window.console.error)
CatchCallback(w, c) ==
    Do([w EXCEPT !.err = ""], "log", c, "console.error", w.err, NoEditor)

\* The reason the chain's promise is rejected with in stage `settled`.
Reason(settled) ==
    IF settled = "rejected" THEN "loadError"
    ELSE IF settled = "thrown" THEN "constructionError"
    ELSE ""

\* Faulty chain: the continuation also runs when the promise has rejected.
PromiseChainFinally(w, c, settled, throws) ==
    IF settled = "resolved"
    THEN ThenCallback(w, c, throws)
    ELSE LET r1 == IF settled = "rejected" THEN ThenCallback(w, c, throws) ELSE w
             r2 == CatchCallback([r1 EXCEPT !.err = Reason(settled)], c)
         IN  IF r2.err # ""
             THEN Do(r2, "throw", c, "unhandledRejection", r2.err, NoEditor)
             ELSE r2

\* One reaction of the chain getEditorNamespace(...).then(...).catch(...).
\* On a resolved namespace promise the then callback runs; an error it throws
\* rejects the promise then() returned (err of the result), and the catch
\* callback is a later job of the microtask queue.  On a rejected promise
\* ("rejected": the load failed, "thrown": the then callback threw) the catch
\* callback runs; an error left over is an unhandled rejection.
PromiseChain(w, c, settled, throws) ==
    IF settled = "resolved"
    THEN ThenCallback(w, c, throws)
    ELSE LET r2 == CatchCallback([w EXCEPT !.err = Reason(settled)], c)
         IN  IF r2.err # ""
             THEN Do(r2, "throw", c, "unhandledRejection", r2.err, NoEditor)
             ELSE r2

----------------------------------------------------------------------------
(* Actions *)

\* The record of a handler's run: its name, the component (or editor) and the
\* argument, the cached data of that component before the run, and whether the
\* run repeats the write that ran just before it.
Op(n, c, a) ==
    [n |-> n, c |-> c, a |-> a,
     was |-> IF c \in Comp THEN _data[c] ELSE Null,
     again |-> n = "data" /\ op.n = "data" /\ op.c = c /\ op.a = a]

Late == "late"

\* ngAfterViewInit(): getEditorNamespace returns the namespace when it is
\* present, starts the one script load when none runs, and joins it otherwise.
NgAfterViewInit(c) ==
    /\ stage[c] = "new"
    /\ ~_destroyed[c]
    /\ IF namespace = "present"
       THEN /\ stage' = [stage EXCEPT ![c] = "resolved"]
            /\ UNCHANGED <<namespace, loader>>
       ELSE /\ stage' = [stage EXCEPT ![c] = "waiting"]
            /\ namespace' = "loading"
            /\ loader' = IF namespace = "absent" THEN c ELSE loader
    /\ op' = Op("ngAfterViewInit", c, "")
    /\ Observe(<<>>)
    /\ UNCHANGED <<wait, tally>>
    /\ UNCHANGED <<compVars, inputVars, toolVars, edVars, onInstanceReady, loads, loadedEmits>>

\* The script has loaded: the loading component's callback runs and the
\* promise of every waiting component resolves.
NamespaceLoaded ==
    /\ namespace = "loading"
    /\ namespace' = "present"
    /\ loads' = loads + 1
    /\ loader' = 0
    /\ stage' = [c \in Comp |-> IF stage[c] = "waiting" THEN "resolved" ELSE stage[c]]
    /\ Commit(OnNamespaceLoaded(World, loader))
    /\ op' = Op("namespaceLoaded", loader, "")
    /\ UNCHANGED <<onChange, onTouched, written, inputVars, toolVars>>

\* The script load has failed: the promise of every waiting component rejects.
NamespaceFailed ==
    /\ namespace = "loading"
    /\ namespace' = "absent"
    /\ loader' = 0
    /\ stage' = [c \in Comp |-> IF stage[c] = "waiting" THEN "rejected" ELSE stage[c]]
    /\ op' = Op("namespaceFailed", loader, "")
    /\ Observe(<<>>)
    /\ UNCHANGED <<wait, tally>>
    /\ UNCHANGED <<compVars, inputVars, toolVars, edVars, onInstanceReady, loads, loadedEmits>>

\* The then callback on a resolved namespace promise.  When createEditor throws
\* the chain is left rejected ("thrown") for the catch callback.
ThenContinuation(c, throws) ==
    /\ stage[c] = "resolved"
    /\ LET w == PromiseChain(World, c, "resolved", throws)
       IN  /\ Commit(w)
           /\ stage' = [stage EXCEPT ![c] =
                 IF w.err # "" THEN "thrown"
                 ELSE IF w.edStatus[c] = "constructed" THEN "created"
                 ELSE "abandoned"]
    /\ throws => ~_destroyed[c]
    /\ op' = Op("then", c, IF throws THEN "throws" ELSE "")
    /\ UNCHANGED <<onChange, onTouched, written, inputVars, toolVars, namespace, loader, loads>>

\* The catch callback on a rejected chain: the namespace promise rejected, or
\* the then callback threw.
CatchRejection(c) ==
    /\ stage[c] \in {"rejected", "thrown"}
    /\ Commit(PromiseChain(World, c, stage[c], FALSE))
    /\ stage' = [stage EXCEPT ![c] = IF @ = "rejected" THEN "failed" ELSE "threw"]
    /\ op' = Op("catch", c, "")
    /\ UNCHANGED <<onChange, onTouched, written, inputVars, toolVars, namespace, loader, loads>>

NgOnDestroy(c) ==
    /\ stage[c] # "none"
    /\ Commit(Destroy(World, c))
    /\ op' = Op("ngOnDestroy", c, "")
    /\ UNCHANGED <<onChange, onTouched, written, inputVars, toolVars, namespace, loader, loads, stage>>


\* The rest of the state an action on a component or an editor leaves alone.
frame == <<onChange, onTouched, inputVars, toolVars, namespace, loader, loads, stage>>

\* A write of the data input, or writeValue(v).
WriteData(c, v) ==
    /\ stage[c] # "none"
    /\ Commit(SetData(World, c, v))
    /\ written' = [written EXCEPT ![c] = IF instance[c] = NoEditor THEN v ELSE Late]
    /\ op' = Op("data", c, v)
    /\ UNCHANGED frame

\* A write of the readOnly input.
WriteReadOnly(c, b) ==
    /\ stage[c] # "none"
    /\ Commit(SetReadOnly(World, c, b))
    /\ op' = Op("readOnly", c, b)
    /\ UNCHANGED <<frame, written>>

\* A read of the readOnly property.
ReadReadOnly(c) ==
    /\ stage[c] # "none"
    /\ op' = Op("getReadOnly", c, "")
    /\ Observe(<<Effect("return", c, "readOnly", GetReadOnly(World, c), instance[c])>>)
    /\ UNCHANGED <<wait, tally>>
    /\ UNCHANGED <<compVars, inputVars, toolVars, nsVars, edVars, stage, onInstanceReady>>

RegisterOnChange(c) ==
    /\ stage[c] # "none"
    /\ ~onChange[c]
    /\ onChange' = [onChange EXCEPT ![c] = TRUE]
    /\ op' = Op("registerOnChange", c, "")
    /\ Observe(<<>>)
    /\ UNCHANGED <<wait, tally>>
    /\ UNCHANGED <<_data, _readOnly, _destroyed, instance, written, onTouched,
                   inputVars, toolVars, nsVars, edVars, stage, onInstanceReady>>

RegisterOnTouched(c) ==
    /\ stage[c] # "none"
    /\ ~onTouched[c]
    /\ onTouched' = [onTouched EXCEPT ![c] = TRUE]
    /\ op' = Op("registerOnTouched", c, "")
    /\ Observe(<<>>)
    /\ UNCHANGED <<wait, tally>>
    /\ UNCHANGED <<_data, _readOnly, _destroyed, instance, written, onChange,
                   inputVars, toolVars, nsVars, edVars, stage, onInstanceReady>>

\* The native editor fires instanceReady: the listener it was constructed with runs.
InstanceReady(e) ==
    /\ edStatus[e] = "constructed"
    /\ Commit(InstanceReadyHandler([World EXCEPT !.edStatus[e] = "ready"], edHandler[e], e))
    /\ op' = Op("instanceReady", e, "")
    /\ UNCHANGED <<frame, written>>

\* The classic editor has loaded the data of its last setData: it serializes
\* it and fires dataReady.
DataReady(e) ==
    /\ edStatus[e] = "ready"
    /\ loading[e]
    /\ Commit(Fire([World EXCEPT !.content[e] = Norm(@), !.loading[e] = FALSE],
                   e, "dataReady"))
    /\ op' = Op("dataReady", e, "loaded")
    /\ UNCHANGED <<frame, written>>

\* The user edits the content: the editor fires change when it has an undo
\* manager (unless locked), selectionCheck otherwise.
UserEdit(e, v) ==
    /\ edStatus[e] = "ready"
    /\ ~loading[e]
    /\ edReadOnly[e] = "false"
    /\ v # content[e]
    /\ LET w == [World EXCEPT !.content[e] = v]
       IN  Commit(IF undoManager[e]
                  THEN IF lock[e] = 0 THEN Fire(w, e, "change") ELSE w
                  ELSE Fire(w, e, "selectionCheck"))
    /\ op' = Op("edit", e, v)
    /\ UNCHANGED <<frame, written>>

\* A native event that comes with no change of the content.
NativeEvent(e, name) ==
    /\ edStatus[e] = "ready"
    /\ ~loading[e]
    /\ name = "change" => undoManager[e] /\ lock[e] = 0
    /\ Commit(Fire(World, e, name))
    /\ op' = Op("event", e, name)
    /\ UNCHANGED <<frame, written>>

----------------------------------------------------------------------------
(* The test tools (src/src/test.tools.ts): the mock of a native DataTransfer *)

\* Longest types list of the mock.
MaxTypes == 3

Undefined == "undefined"
TransferType == {"Text", "text/plain", "text/html"}
TransferValue == {"hello", "bye"}

\* The record of a call of a test tool or of a step of the launcher: its name,
\* its first argument and, in `was`, its second.
ToolOp(n, a, b) == [n |-> n, c |-> 0, a |-> a, was |-> b, again |-> FALSE]

\* mockNativeDataTransfer(): a property the object does not have reads undefined.
NewTransfer ==
    [types |-> <<>>, files |-> <<>>, _data |-> [t \in TransferType |-> Undefined]]

\* CKEDITOR.tools.indexOf(array, value): the 0-based index of the first
\* element equal to value, -1 when there is none.
IndexOf(array, value) ==
    IF \E i \in DOMAIN array : array[i] = value
    THEN (CHOOSE i \in DOMAIN array :
              array[i] = value /\ \A j \in 1..(i - 1) : array[j] # value) - 1
    ELSE -1

\* array.splice(index, 1)
Splice(array, index) ==
    SubSeq(array, 1, index) \o SubSeq(array, index + 2, Len(array))

\* setData(type, data) of the mock
MockSetData(t, ty, data) ==
    LET d == IF ty = "text/plain" \/ ty = "Text"
             THEN [t._data EXCEPT !["text/plain"] = data, !["Text"] = data]
             ELSE [t._data EXCEPT ![ty] = data]
    IN  [t EXCEPT !._data = d, !.types = Append(@, ty)]

\* getData(type) of the mock
MockGetData(t, ty) == t._data[ty]

\* clearData(type) of the mock
MockClearData(t, ty) ==
    LET index == IndexOf(t.types, ty)
    IN  IF index # -1
        THEN [t EXCEPT !._data[ty] = Undefined, !.types = Splice(@, index)]
        ELSE t

\* No call of setDataMultipleTimes has been made.
NoJob ==
    [editor |-> NoEditor, data |-> <<>>, given |-> <<>>, timer |-> <<>>,
     resolved |-> 0, calls |-> <<>>]

\* An object without own properties besides the empty list `_`; a key is
\* absent when its sequence of values is empty.
NoOptions == [positional |-> <<>>, url |-> <<>>, u |-> <<>>]

\* scripts/test.js has not been started.  child and exit are -1 until the
\* spawned process and the launcher have exited.
NoLauncher ==
    [stage |-> "idle", argv |-> <<>>, options |-> NoOptions, env |-> <<>>,
     spawns |-> 0, child |-> -1, exit |-> -1]

\* What a step of a test tool or of the launcher leaves alone.
componentVars == <<compVars, inputVars, nsVars, edVars, stage, onInstanceReady>>

MockNativeDataTransfer ==
    /\ transfer' = NewTransfer
    /\ op' = ToolOp("mockNativeDataTransfer", "", "")
    /\ Observe(<<>>)
    /\ UNCHANGED <<wait, tally>>
    /\ UNCHANGED <<componentVars, job, launcher>>

TransferSetData(ty, data) ==
    /\ Len(transfer.types) < MaxTypes
    /\ transfer' = MockSetData(transfer, ty, data)
    /\ op' = ToolOp("transfer.setData", ty, data)
    /\ Observe(<<>>)
    /\ UNCHANGED <<wait, tally>>
    /\ UNCHANGED <<componentVars, job, launcher>>

TransferGetData(ty) ==
    /\ op' = ToolOp("transfer.getData", ty, "")
    /\ Observe(<<Effect("return", 0, "getData", MockGetData(transfer, ty), NoEditor)>>)
    /\ UNCHANGED <<wait, tally>>
    /\ UNCHANGED <<componentVars, toolVars>>

TransferClearData(ty) ==
    /\ transfer' = MockClearData(transfer, ty)
    /\ op' = ToolOp("transfer.clearData", ty, "")
    /\ Observe(<<>>)
    /\ UNCHANGED <<wait, tally>>
    /\ UNCHANGED <<componentVars, job, launcher>>

----------------------------------------------------------------------------
(* The test tools: setDataMultipleTimes and setDataHelper *)

\* Longest array given to setDataMultipleTimes.
MaxSeq == 2

\* The delay of setDataHelper's timers, in milliseconds.
Delay == 100

DataArray == UNION {[1..n -> Str] : n \in 0..MaxSeq}

\* data.forEach( content => editor.setData( content ) )
SetDataEach(w, e, data) ==
    IF data = <<>>
    THEN w
    ELSE SetDataEach(NativeSetData(w, e, Head(data), <<>>), e, Tail(data))

\* Faulty setDataHelper: the array is consumed from its end.
SetDataHelperPop(j) ==
    IF Len(j.data) > 0
    THEN [j EXCEPT !.data = SubSeq(@, 1, Len(@) - 1),
                   !.timer = <<[k |-> "set", content |-> j.data[Len(j.data)], ms |-> Delay]>>]
    ELSE [j EXCEPT !.timer = <<[k |-> "done", content |-> "", ms |-> Delay]>>]

\* setDataHelper( editor, data, done ): shifts the array and sets the timer of
\* the next setData, or the timer of done when the array is empty.
SetDataHelper(j) ==
    IF Len(j.data) > 0
    THEN [j EXCEPT !.data = Tail(@),
                   !.timer = <<[k |-> "set", content |-> Head(j.data), ms |-> Delay]>>]
    ELSE [j EXCEPT !.timer = <<[k |-> "done", content |-> "", ms |-> Delay]>>]

\* res() of the promise that setDataMultipleTimes returned.
Resolve(r, e) ==
    [j |-> [r.j EXCEPT !.resolved = @ + 1],
     w |-> Do(r.w, "resolve", 0, "setDataMultipleTimes", "", e)]

\* Faulty setDataMultipleTimes: the inline editor gets no path of its own.
SetDataMultipleTimesDeferred(w, e, data) ==
    LET j == [NoJob EXCEPT !.editor = e, !.data = data, !.given = data]
    IN  [j |-> SetDataHelper(j), w |-> w]

\* setDataMultipleTimes( editor, data ): the executor of the promise.
SetDataMultipleTimes(w, e, data) ==
    LET j == [NoJob EXCEPT !.editor = e, !.data = data, !.given = data]
    IN  IF type[e] # "inline"
        THEN [j |-> SetDataHelper(j), w |-> w]
        ELSE Resolve([j |-> j, w |-> SetDataEach(w, e, data)], e)

\* The callback of the timer that setDataHelper set.
TimerCallback(w, j, e) ==
    LET t == Head(j.timer)
        j0 == [j EXCEPT !.timer = <<>>]
    IN  IF t.k = "set"
        THEN [j |-> SetDataHelper(j0), w |-> NativeSetData(w, e, t.content, <<>>)]
        ELSE Resolve([j |-> j0, w |-> w], e)

\* The arguments of the editor.setData calls of the run named by op, in order.
SetDataArgs(effects) ==
    LET calls == SelectSeq(effects, LAMBDA x : x.k = "call" /\ x.n = "setData")
    IN  [i \in DOMAIN calls |-> calls[i].a]

\* A test calls setDataMultipleTimes on the editor of a ready component.
CallSetDataMultipleTimes(e, data) ==
    /\ edStatus[e] = "ready"
    /\ job.timer = <<>>
    /\ LET r == SetDataMultipleTimes(World, e, data)
       IN  /\ Commit(r.w)
           /\ job' = [r.j EXCEPT !.calls = SetDataArgs(r.w.out)]
    /\ op' = ToolOp("setDataMultipleTimes", "", "")
    /\ UNCHANGED <<onChange, onTouched, written, inputVars, namespace, loader, loads,
                   stage, transfer, launcher>>

\* The timer of setDataHelper expires.
Timeout ==
    /\ job.timer # <<>>
    /\ LET r == TimerCallback(World, job, job.editor)
       IN  /\ Commit(r.w)
           /\ job' = [r.j EXCEPT !.calls = @ \o SetDataArgs(r.w.out)]
    /\ op' = ToolOp("timeout", Head(job.timer).k, "")
    /\ UNCHANGED <<onChange, onTouched, written, inputVars, namespace, loader, loads,
                   stage, transfer, launcher>>

----------------------------------------------------------------------------
(* The test tools: whenEvent and whenDataReady *)

\* The optional callback of whenDataReady: none (Null) or () => editor.setData(t).
Trigger == Str \cup {Null}

\* The outputs a test waits for.
WaitOutput == {"dataReady", "dataChange", "change", "focus"}

\* Faulty whenDataReady: the callback is invoked before the listener is added.
WhenDataReadyListensLate(w, e, t) ==
    LET w1 == IF t # Null
              THEN NativeSetData(Do(w, "cb", 0, "callback", t, e), e, t, <<>>)
              ELSE w
    IN  Do([w1 EXCEPT !.wait.dr = "pending", !.wait.editor = e],
           "call", 0, "once", "dataReady", e)

\* whenDataReady( editor, callback ): the executor of the promise.
WhenDataReady(w, e, t) ==
    LET w1 == Do([w EXCEPT !.wait.dr = "pending", !.wait.editor = e],
                 "call", 0, "once", "dataReady", e)
    IN  IF t # Null
        THEN NativeSetData(Do(w1, "cb", 0, "callback", t, e), e, t, <<>>)
        ELSE w1

\* whenEvent( evtName, component ): the executor of the promise.
WhenEvent(w, n, c) ==
    Do([w EXCEPT !.wait.ev = "pending", !.wait.comp = c, !.wait.name = n],
       "call", c, "subscribe", n, NoEditor)

\* A test calls whenDataReady on the editor of a ready component.
CallWhenDataReady(e, t) ==
    /\ edStatus[e] = "ready"
    /\ wait.dr = "none"
    /\ Commit(WhenDataReady(World, e, t))
    /\ op' = ToolOp("whenDataReady", t, "")
    /\ UNCHANGED <<frame, written>>

\* A test calls whenEvent on a component.
CallWhenEvent(n, c) ==
    /\ stage[c] # "none"
    /\ wait.ev = "none"
    /\ Commit(WhenEvent(World, n, c))
    /\ op' = ToolOp("whenEvent", n, "")
    /\ UNCHANGED <<frame, written>>

----------------------------------------------------------------------------
(* The launcher (src/scripts/test.js) *)

\* Longest command line of the launcher.
MaxArgs == 3

Arg == {"--url", "-u", "http://x"}
ArgList == UNION {[1..n -> Arg] : n \in 0..MaxArgs}
ChildCode == {0, 1}

\* minimist: an argument that reads as an option, /^(-|--)[^-]/.
IsOption(arg) == arg \in {"--url", "-u"}

\* minimist( args, { string: [ 'url' ], alias: { u: 'url' } } ): an option takes
\* the next argument as its value unless that is an option too (then the
\* string option is ''); the value is set on the key and on its alias, a
\* repeated key collects its values; the rest goes to `_`.
Minimist(args, o) ==
    IF args = <<>>
    THEN o
    ELSE IF IsOption(Head(args))
         THEN IF Len(args) > 1 /\ ~IsOption(args[2])
              THEN Minimist(SubSeq(args, 3, Len(args)),
                            [o EXCEPT !.url = Append(@, args[2]), !.u = Append(@, args[2])])
              ELSE Minimist(Tail(args),
                            [o EXCEPT !.url = Append(@, ""), !.u = Append(@, "")])
         ELSE Minimist(Tail(args), [o EXCEPT !.positional = Append(@, Head(args))])

\* parseArguments( args ): the aliases are deleted from minimist's result.
ParseArguments(args) ==
    [Minimist(args, NoOptions) EXCEPT !.u = <<>>]

\* JSON text of a list of strings, without the brackets.
JsonItems(values) ==
    IF values = <<>>
    THEN <<>>
    ELSE <<"\"", Head(values), "\"">> \o
         (IF Tail(values) = <<>> THEN <<>> ELSE <<",">> \o JsonItems(Tail(values)))

\* JSON text of the value of a key: a string, or an array when the key was
\* given more than once.
JsonValue(values) ==
    IF Len(values) = 1 THEN JsonItems(values) ELSE <<"[">> \o JsonItems(values) \o <<"]">>

\* JSON.stringify( options ), as a sequence of tokens: the keys in the order
\* minimist created them, absent keys left out.
Stringify(o) ==
    <<"{", "\"_\"", ":", "[">> \o JsonItems(o.positional) \o <<"]">>
    \o (IF o.url # <<>> THEN <<",", "\"url\"", ":">> \o JsonValue(o.url) ELSE <<>>)
    \o (IF o.u # <<>> THEN <<",", "\"u\"", ":">> \o JsonValue(o.u) ELSE <<>>)
    \o <<"}">>

\* The module's top level: parse, set env.CK_OPTIONS, spawn `ng test`.
Launch(l, argv) ==
    LET options == ParseArguments(argv)
    IN  [l EXCEPT !.stage = "spawned", !.argv = argv, !.options = options,
                  !.env = Stringify(options), !.spawns = @ + 1]

\* `node scripts/test.js <argv>`
RunLauncher(argv) ==
    /\ launcher.stage = "idle"
    /\ launcher' = Launch(launcher, argv)
    /\ op' = ToolOp("launcher", "", "")
    /\ Observe(<<Effect("call", 0, "spawn", "ng test", NoEditor)>>)
    /\ UNCHANGED <<wait, tally>>
    /\ UNCHANGED <<componentVars, transfer, job>>

\* The spawned process exits: no listener was added to it and
\* process.exitCode was never set, so the launcher ends with node's default.
ChildExits(code) ==
    /\ launcher.stage = "spawned"
    /\ launcher' = [launcher EXCEPT !.stage = "exited", !.child = code, !.exit = 0]
    /\ op' = ToolOp("childExit", "", "")
    /\ Observe(<<>>)
    /\ UNCHANGED <<wait, tally>>
    /\ UNCHANGED <<componentVars, transfer, job>>

\* `ng` cannot be spawned: the child's error event has no listener and ends
\* the launcher as an uncaught exception.
SpawnFails ==
    /\ launcher.stage = "spawned"
    /\ launcher' = [launcher EXCEPT !.stage = "failed", !.exit = 1]
    /\ op' = ToolOp("spawnError", "", "")
    /\ Observe(<<Effect("throw", 0, "uncaughtException", "ENOENT", NoEditor)>>)
    /\ UNCHANGED <<wait, tally>>
    /\ UNCHANGED <<componentVars, transfer, job>>

----------------------------------------------------------------------------
(* Specifications *)

TypeOK ==
    /\ _data \in [Comp -> Str \cup {Null}]
    /\ _readOnly \in [Comp -> Flag \cup {Null}]
    /\ _destroyed \in [Comp -> BOOLEAN]
    /\ instance \in [Comp -> Editor \cup {NoEditor}]
    /\ content \in [Editor -> Str]
    /\ edReadOnly \in [Editor -> Flag]
    /\ namespace \in {"absent", "loading", "present"}

\* The state after construction of the components that exist (stage "new").
InitFields ==
    /\ _data = [c \in Comp |-> Null]
    /\ _readOnly = [c \in Comp |-> Null]
    /\ _destroyed = [c \in Comp |-> FALSE]
    /\ instance = [c \in Comp |-> NoEditor]
    /\ onChange = [c \in Comp |-> FALSE]
    /\ onTouched = [c \in Comp |-> FALSE]
    /\ written = [c \in Comp |-> Null]
    /\ namespace = "absent"
    /\ loader = 0
    /\ loads = 0
    /\ loadedEmits = 0
    /\ edStatus = [e \in Editor |-> "none"]
    /\ edHandler = [e \in Editor |-> NoHandler]
    /\ content = [e \in Editor |-> ""]
    /\ lock = [e \in Editor |-> 0]
    /\ subs = [e \in Editor |-> <<>>]
    /\ loading = [e \in Editor |-> FALSE]
    /\ cbs = [e \in Editor |-> <<>>]
    /\ op = [n |-> "init", c |-> 0, a |-> "", was |-> Null, again |-> FALSE]
    /\ out = <<>>
    /\ ctx = <<>>
    /\ wait = NoWait
    /\ tally = [c \in Comp |-> [createEditor |-> 0, ready |-> 0]]
    /\ twoWay = [c \in Comp |-> FALSE]

\* One component with a configuration of its own.
Init ==
    /\ InitFields
    /\ transfer = NewTransfer
    /\ job = NoJob
    /\ launcher = NoLauncher
    /\ stage = [c \in Comp |-> IF c = 1 THEN "new" ELSE "none"]
    /\ \E t \in {"classic", "inline"} :
          type = [c \in Comp |-> IF c = 1 THEN t ELSE "classic"]
    /\ tagName = [c \in Comp |-> "textarea"]
    /\ \E k \in 0..1 : config = [c \in Comp |-> IF c = 1 THEN k ELSE 0]
    /\ onInstanceReady \in {NoHandler, UserHandler}
    /\ config[1] = 0 => onInstanceReady = NoHandler
    /\ \E u \in BOOLEAN : undoManager = [e \in Editor |-> e = 1 /\ u]
    /\ \E r \in Flag : defaultReadOnly = [e \in Editor |-> IF e = 1 THEN r ELSE "false"]
    /\ edReadOnly = defaultReadOnly

Next ==
    \/ \E c \in Comp : NgAfterViewInit(c)
    \/ NamespaceLoaded
    \/ NamespaceFailed
    \/ \E c \in Comp, throws \in BOOLEAN : ThenContinuation(c, throws)
    \/ \E c \in Comp : CatchRejection(c)
    \/ \E c \in Comp : NgOnDestroy(c)
    \/ \E c \in Comp, v \in Str \cup {Null} : WriteData(c, v)
    \/ \E c \in Comp, b \in Flag : WriteReadOnly(c, b)
    \/ \E c \in Comp : ReadReadOnly(c)
    \/ \E c \in Comp : RegisterOnChange(c)
    \/ \E c \in Comp : RegisterOnTouched(c)
    \/ \E e \in Editor : InstanceReady(e)
    \/ \E e \in Editor : DataReady(e)
    \/ \E e \in Editor, v \in Serialized : UserEdit(e, v)
    \/ \E e \in Editor, name \in Forwarded \cup ChangeEvents : NativeEvent(e, name)

Spec == Init /\ [][Next]_vars

\* Every component exists; each is given the shared configuration object, a
\* configuration of its own, or none.
InitShared ==
    /\ InitFields
    /\ transfer = NewTransfer
    /\ job = NoJob
    /\ launcher = NoLauncher
    /\ stage = [c \in Comp |-> "new"]
    /\ \E t \in EditorType :
          type = [c \in Comp |-> IF c = 1 THEN t ELSE "classic"]
    /\ \E t \in TagName :
          tagName = [c \in Comp |-> IF c = 1 THEN t ELSE "textarea"]
    /\ config \in [Comp -> 0..2]
    /\ onInstanceReady \in {NoHandler, UserHandler}
    /\ (\A c \in Comp : config[c] # 1) => onInstanceReady = NoHandler
    /\ undoManager = [e \in Editor |-> TRUE]
    /\ defaultReadOnly = [e \in Editor |-> "false"]
    /\ edReadOnly = defaultReadOnly

NextShared ==
    \/ \E c \in Comp : NgAfterViewInit(c)
    \/ NamespaceLoaded
    \/ NamespaceFailed
    \/ \E c \in Comp : ThenContinuation(c, FALSE)
    \/ \E c \in Comp : CatchRejection(c)
    \/ \E c \in Comp : NgOnDestroy(c)
    \/ \E e \in Editor : InstanceReady(e)

SpecShared == InitShared /\ [][NextShared]_vars

\* A test that has no component yet and works on one mock of a DataTransfer.
InitTransfer ==
    /\ InitFields
    /\ stage = [c \in Comp |-> "none"]
    /\ type = [c \in Comp |-> "classic"]
    /\ tagName = [c \in Comp |-> "textarea"]
    /\ config = [c \in Comp |-> 0]
    /\ onInstanceReady = NoHandler
    /\ undoManager = [e \in Editor |-> FALSE]
    /\ defaultReadOnly = [e \in Editor |-> "false"]
    /\ edReadOnly = defaultReadOnly
    /\ transfer = NewTransfer
    /\ job = NoJob
    /\ launcher = NoLauncher

NextTransfer ==
    \/ MockNativeDataTransfer
    \/ \E ty \in TransferType, data \in TransferValue : TransferSetData(ty, data)
    \/ \E ty \in TransferType : TransferGetData(ty)
    \/ \E ty \in TransferType : TransferClearData(ty)

SpecTransfer == InitTransfer /\ [][NextTransfer]_vars

\* A test whose component has completed its creation, with or without initial
\* data, and that calls setDataMultipleTimes on its editor.
InitReady ==
    /\ \E t \in {"classic", "inline"} :
          type = [c \in Comp |-> IF c = 1 THEN t ELSE "classic"]
    /\ tagName = [c \in Comp |-> "textarea"]
    /\ \E u \in BOOLEAN : undoManager = [e \in Editor |-> e = 1 /\ u]
    /\ config = [c \in Comp |-> 0]
    /\ onInstanceReady = NoHandler
    /\ defaultReadOnly = [e \in Editor |-> "false"]
    /\ edReadOnly = defaultReadOnly
    /\ \E d \in {Null, "<p>x</p>"} :
          /\ _data = [c \in Comp |-> IF c = 1 THEN d ELSE Null]
          /\ written = _data
          /\ content = [e \in Editor |-> IF e = 1 THEN Norm(d) ELSE ""]
    /\ _readOnly = [c \in Comp |-> Null]
    /\ _destroyed = [c \in Comp |-> FALSE]
    /\ instance = [c \in Comp |-> IF c = 1 THEN 1 ELSE NoEditor]
    /\ onChange = [c \in Comp |-> FALSE]
    /\ onTouched = [c \in Comp |-> FALSE]
    /\ stage = [c \in Comp |-> IF c = 1 THEN "created" ELSE "none"]
    /\ namespace = "present"
    /\ loader = 0
    /\ loads = 1
    /\ loadedEmits = 1
    /\ edStatus = [e \in Editor |-> IF e = 1 THEN "ready" ELSE "none"]
    /\ edHandler = [e \in Editor |-> IF e = 1 THEN [chain |-> <<1>>, user |-> FALSE]
                                     ELSE NoHandler]
    /\ lock = [e \in Editor |-> 0]
    /\ subs = [e \in Editor |->
                  IF e = 1
                  THEN <<[c |-> 1, ev |-> IF undoManager[1] THEN "change"
                                          ELSE "selectionCheck"]>>
                  ELSE <<>>]
    /\ loading = [e \in Editor |-> FALSE]
    /\ cbs = [e \in Editor |-> <<>>]
    /\ op = [n |-> "init", c |-> 0, a |-> "", was |-> Null, again |-> FALSE]
    /\ out = <<>>
    /\ ctx = <<>>
    /\ wait = NoWait
    /\ tally = [c \in Comp |-> IF c = 1 THEN [createEditor |-> 1, ready |-> 1]
                                ELSE [createEditor |-> 0, ready |-> 0]]
    /\ transfer = NewTransfer
    /\ job = NoJob
    /\ launcher = NoLauncher

\* A ready component whose host listens to no output.
InitSetData == InitReady /\ twoWay = [c \in Comp |-> FALSE]

\* A ready component whose host binds data two-way.
InitBinding == InitReady /\ twoWay = [c \in Comp |-> c = 1]

NextSetData ==
    \/ \E e \in Editor, data \in DataArray : CallSetDataMultipleTimes(e, data)
    \/ Timeout
    \/ \E e \in Editor : DataReady(e)

SpecSetData == InitSetData /\ [][NextSetData]_vars

\* A test waits on a ready component and its editor while data is written,
\* the user edits and the editor gets the focus.
NextWait ==
    \/ \E e \in Editor, t \in Trigger : CallWhenDataReady(e, t)
    \/ \E c \in Comp, n \in WaitOutput : CallWhenEvent(n, c)
    \/ \E c \in Comp, v \in Str : WriteData(c, v)
    \/ \E e \in Editor : DataReady(e)
    \/ \E e \in Editor, v \in Serialized : UserEdit(e, v)
    \/ \E e \in Editor : NativeEvent(e, "focus")

SpecWait == InitSetData /\ [][NextWait]_vars

\* A component whose namespace promise resolves, whose continuation does not
\* throw, and which is never torn down.  The promise continuation is a queued
\* microtask, and the native library delivers instanceReady and the dataReady
\* of every setData it was given: a delivery that stays pending is made.
NextLive ==
    \/ \E c \in Comp : NgAfterViewInit(c)
    \/ NamespaceLoaded
    \/ \E c \in Comp : ThenContinuation(c, FALSE)
    \/ \E c \in Comp, v \in Str \cup {Null} : WriteData(c, v)
    \/ \E c \in Comp : RegisterOnChange(c)
    \/ \E e \in Editor : InstanceReady(e)
    \/ \E e \in Editor : DataReady(e)
    \/ \E e \in Editor, v \in Serialized : UserEdit(e, v)

\* A pending delivery: the script load, a promise continuation, instanceReady
\* or the dataReady of a setData.
Delivery ==
    \/ NamespaceLoaded
    \/ \E c \in Comp : ThenContinuation(c, FALSE)
    \/ \E e \in Editor : InstanceReady(e)
    \/ \E e \in Editor : DataReady(e)

\* The enabling condition of Delivery: the script is loading, a continuation
\* is queued, an editor has not fired instanceReady, or a setData is loading.
\* Every delivery changes the state (at least stage, edStatus or loading).
Pending ==
    \/ namespace = "loading"
    \/ \E c \in Comp : stage[c] = "resolved"
    \/ \E e \in Editor : edStatus[e] = "constructed"
    \/ \E e \in Editor : edStatus[e] = "ready" /\ loading[e]

\* Weak fairness of Delivery, WF_vars(Delivery), with Pending written for
\* ENABLED <<Delivery>>_vars.
Fairness == []<>(~Pending) \/ []<><<Delivery>>_vars

SpecLive == Init /\ [][NextLive]_vars /\ Fairness

\* Components that may share one configuration object, with editors in use.
NextSharedEdit ==
    \/ NextShared
    \/ \E e \in Editor, v \in Serialized : UserEdit(e, v)

SpecSharedEdit == InitShared /\ [][NextSharedEdit]_vars

\* A run of the launcher; no component exists in its process.
\* The host of a ready component writes data, registers onChange and the user
\* edits, while every dataChange is written back.
NextBinding ==
    \/ \E c \in Comp, v \in Str \cup {Null} : WriteData(c, v)
    \/ \E c \in Comp : RegisterOnChange(c)
    \/ \E e \in Editor : DataReady(e)
    \/ \E e \in Editor, v \in Serialized : UserEdit(e, v)
    \/ \E e \in Editor, name \in ChangeEvents : NativeEvent(e, name)

SpecBinding == InitBinding /\ [][NextBinding]_vars

NextLauncher ==
    \/ \E argv \in ArgList : RunLauncher(argv)
    \/ \E code \in ChildCode : ChildExits(code)
    \/ SpawnFails

SpecLauncher == InitTransfer /\ [][NextLauncher]_vars


----------------------------------------------------------------------------
(* Properties *)

\* Positions of `out` where component c emitted output n, and where the native
\* method n was called.
Emits(c, n) == {i \in DOMAIN out : out[i].k = "emit" /\ out[i].c = c /\ out[i].n = n}
Calls(n) == {i \in DOMAIN out : out[i].k = "call" /\ out[i].n = n}
Logs == {i \in DOMAIN out : out[i].k = "log"}
Throws == {i \in DOMAIN out : out[i].k = "throw"}

\* Component c was torn down while it held no instance: before its creation
\* sequence had completed.  (A teardown that finds an instance destroys it.)
TornDownEarly(c) == _destroyed[c] /\ edStatus[c] # "destroyed"

\* C1: a component torn down before its creation sequence has completed gets
\* no editor instance attached and emits nothing afterwards (the outputs of
\* the component's own handlers: ready, dataReady, change, dataChange and the
\* forwarded events).
C1_NoInstanceNoOutputAfterEarlyTeardown ==
    \A c \in Comp :
        TornDownEarly(c) =>
            /\ instance[c] = NoEditor
            /\ \A i \in DOMAIN out :
                  ~(out[i].k = "emit" /\ out[i].c = c /\ out[i].n # "namespaceLoaded")

\* C2: a component's instance handle only ever refers to the editor its own
\* createEditor constructed, and no handler of a component runs for the editor
\* of another component.
C2_InstanceExclusivelyOwned ==
    /\ \A c \in Comp : instance[c] \in {NoEditor, c}
    /\ \A i \in DOMAIN out :
          (out[i].c # 0 /\ out[i].e # NoEditor) => out[i].c = out[i].e


DataChanged(c) == Emits(c, "dataChange") # {}

\* The native event that subscribe bound, besides dataReady, to component c's
\* propagateChange on its editor.
BoundTo(c, name) ==
    \E i \in DOMAIN subs[c] : subs[c][i].c = c /\ subs[c][i].ev = name

\* The run named by op went through component c's propagateChange: a native
\* change, dataReady or selectionCheck event it is bound to, or the dataReady
\* that an inline editor fires inside setData.
ChangeHandlerRan(c) ==
    /\ op.c = c
    /\ instance[c] = c
    /\ \/ op.n = "edit"
       \/ op.n = "dataReady"
       \/ op.n = "event" /\ (op.a = "dataReady" \/ BoundTo(c, op.a))
       \/ op.n = "data" /\ type[c] = "inline" /\ op.a # op.was
       \/ op.n = "instanceReady" /\ type[c] = "inline" /\ op.was # Null

\* C3 as stated: after an initial load, an external write or a native
\* change/dataReady/selectionCheck event, dataChange has fired if and only if
\* the instance's content differs from the value cached before the operation.
C3_DataChangeIffContentDiffers ==
    \A c \in Comp :
        ( /\ op.c = c
          /\ instance[c] # NoEditor
          /\ \/ op.n \in {"instanceReady", "dataReady", "data", "edit"}
             \/ op.n = "event" /\ op.a \in ChangeEvents )
        => (DataChanged(c) <=> content[instance[c]] # op.was)

\* C3 amended: dataChange fires only if the instance's content after the
\* operation differs from the value cached before it, and in every run of the
\* change handler it fires exactly when they differ.
C3_DataChangeWhenHandlerSeesDifference ==
    \A c \in Comp :
        /\ DataChanged(c) =>
              /\ op.c = c
              /\ instance[c] # NoEditor
              /\ content[instance[c]] # op.was
        /\ ChangeHandlerRan(c) =>
              (DataChanged(c) <=> content[instance[c]] # op.was)

C3_Witness ==
    \E c \in Comp :
        /\ ChangeHandlerRan(c)
        /\ op.n = "data"
        /\ DataChanged(c)
        /\ content[c] = "<p>x</p>"

\* C4 as stated: the second of two identical writes in a row never calls
\* instance.setData.
C4_RepeatedWriteNeverCallsSetData ==
    op.again => Calls("setData") = {}

\* C4 amended: the second of two identical writes in a row calls no
\* instance.setData when there is no instance or the instance serializes the
\* string back unchanged.
C4_RepeatedWriteOfStableValue ==
    (op.again /\ (instance[op.c] = NoEditor \/ Norm(op.a) = op.a))
        => Calls("setData") = {}

C4_Witness ==
    /\ op.again
    /\ instance[op.c] # NoEditor
    /\ op.a = "<p>x</p>"
    /\ content[instance[op.c]] = "<p>x</p>"

\* C5: when ready is emitted after writes that all came before the instance
\* existed, the cached data is the normalized form of the last written value,
\* which is what the instance serializes to.
C5_CacheAfterCreation ==
    \A c \in Comp :
        (Emits(c, "ready") # {} /\ written[c] \in Str) =>
            /\ instance[c] # NoEditor
            /\ _data[c] = Norm(written[c])
            /\ _data[c] = content[instance[c]]

C5_Witness ==
    \E c \in Comp :
        /\ Emits(c, "ready") # {}
        /\ written[c] = Raw
        /\ _data[c] = "<p>x</p>"

\* A settling point of component c: its initial load has just completed, an
\* external write has returned, or the handler of an edit event has returned.
Settled(c) ==
    /\ op.c = c
    /\ instance[c] # NoEditor
    /\ \/ Emits(c, "ready") # {}
       \/ op.n \in {"data", "edit"}
       \/ op.n = "event" /\ op.a \in ChangeEvents

\* C6 as stated: at every settling point the cached data equals getData().
C6_CacheEqualsContentWhenSettled ==
    \A c \in Comp : Settled(c) => _data[c] = content[instance[c]]

\* C6 amended: at every settling point the cached data, unless it is still
\* null (no initial data and no write or change since), equals getData().
C6_NonNullCacheEqualsContentWhenSettled ==
    \A c \in Comp :
        (Settled(c) /\ _data[c] # Null) => _data[c] = content[instance[c]]

C6_Witness ==
    \E c \in Comp :
        /\ Settled(c)
        /\ op.n = "data"
        /\ op.a = Raw
        /\ _data[c] = "<p>x</p>"

\* C7: a readOnly write without an instance calls nothing and is stored; the
\* instanceReady handler calls setReadOnly exactly once, with the stored value
\* if there is one and with the instance's default otherwise; nothing else
\* calls setReadOnly.
C7_DeferredReadOnly ==
    /\ (op.n = "readOnly" /\ instance[op.c] = NoEditor) =>
          out = <<>> /\ _readOnly[op.c] = op.a
    /\ op.n = "instanceReady" =>
          /\ Cardinality(Calls("setReadOnly")) = 1
          /\ \A i \in Calls("setReadOnly") :
                /\ out[i].e = op.c
                /\ out[i].a = IF _readOnly[op.c] # Null
                              THEN _readOnly[op.c]
                              ELSE defaultReadOnly[op.c]
                /\ edReadOnly[op.c] = out[i].a
    /\ Calls("setReadOnly") # {} => op.n \in {"instanceReady", "readOnly"}

C7_Witness ==
    /\ op.n = "instanceReady"
    /\ _readOnly[op.c] = "true"
    /\ defaultReadOnly[op.c] = "false"
    /\ edReadOnly[op.c] = "true"

\* C8: over all components the script loads at most once, namespaceLoaded is
\* emitted once for that load and never otherwise, by the component whose
\* ngAfterViewInit started the load.
C8_NamespaceLoadedOnce ==
    /\ loads <= 1
    /\ loadedEmits = loads
    /\ (namespace = "present") <=> (loads = 1)
    /\ \A c \in Comp :
          Emits(c, "namespaceLoaded") # {} =>
              /\ op.n = "namespaceLoaded"
              /\ op.c = c
              /\ Cardinality(Emits(c, "namespaceLoaded")) = 1

C8_Witness ==
    /\ loadedEmits = 1
    /\ \A c \in Comp : stage[c] = "created"

\* C9: a component whose namespace promise rejected logs the failure once to
\* console.error, in the catch continuation, and otherwise does nothing: no
\* createEditor, no instance, no output, no exception.
C9_LoadFailureIsLoggedOnly ==
    \A c \in Comp :
        stage[c] \in {"rejected", "failed"} =>
            /\ edStatus[c] = "none"
            /\ instance[c] = NoEditor
            /\ \A i \in DOMAIN out : out[i].c = c => out[i].k \in {"log", "return"}
            /\ Throws = {}
            /\ IF op.n = "catch" /\ op.c = c
               THEN out = <<Effect("log", c, "console.error", "loadError", NoEditor)>>
               ELSE Logs = {}

C9_Witness ==
    \E c \in Comp : stage[c] = "failed" /\ op.n = "catch" /\ op.c = c

\* C10: an error raised by the construction entry point inside createEditor
\* surfaces as the library raised it: it is thrown on, and it is not handed to
\* the handler of namespace-load failures (console.error).
C10_ConstructionErrorSurfaces ==
    /\ \A i \in Logs : out[i].a # "constructionError"
    /\ (op.n = "catch" /\ stage[op.c] = "threw") =>
          \E i \in Throws : out[i].a = "constructionError"

\* Number of emissions of output n by component c in the run named by op.
Count(c, n) == Cardinality(Emits(c, n))

\* C11: while the component is Ready, a native change event produces exactly
\* one emission of change, a native dataReady event exactly one emission of
\* dataReady (also the dataReady that follows a setData), whether or not the
\* content differs from the cached data; a native selectionCheck event
\* produces neither.
C11_ChangeAndDataReadyOncePerEvent ==
    \A c \in Comp :
        (op.c = c /\ instance[c] = c /\ edStatus[c] = "ready") =>
            /\ (op.n = "event" /\ op.a = "change") =>
                  Count(c, "change") = 1 /\ Count(c, "dataReady") = 0
            /\ (op.n = "event" /\ op.a = "dataReady") =>
                  Count(c, "dataReady") = 1 /\ Count(c, "change") = 0
            /\ (op.n = "event" /\ op.a = "selectionCheck") =>
                  Count(c, "change") = 0 /\ Count(c, "dataReady") = 0
            /\ op.n = "edit" =>
                  /\ Count(c, "change") = (IF undoManager[c] THEN 1 ELSE 0)
                  /\ Count(c, "dataReady") = 0
            /\ op.n = "dataReady" => Count(c, "dataReady") = 1
            /\ (op.n = "data" /\ type[c] = "inline") =>
                  Count(c, "dataReady") = Cardinality(Calls("setData"))

C11_Witness ==
    \E c \in Comp :
        /\ op.c = c /\ instance[c] = c /\ edStatus[c] = "ready"
        /\ op.n = "event" /\ op.a = "change"
        /\ ~DataChanged(c)
        /\ Count(c, "change") = 1

\* C12: while the component is Ready, a native focus, paste, afterPaste,
\* dragstart, dragend, drop, fileUploadRequest, fileUploadResponse or blur event
\* produces exactly one emission, on the corresponding output and carrying
\* that event, no emission on any other output, and it changes neither the
\* cached data nor the instance handle.
C12_ForwardedOnceAndNothingElse ==
    [][ (op'.n = "event" /\ op'.a \in Forwarded) =>
            /\ \E i \in DOMAIN out' :
                  /\ out'[i] = Effect("emit", op'.c, OutputOf(op'.a), op'.a, op'.c)
                  /\ \A j \in DOMAIN out' : out'[j].k = "emit" => j = i
            /\ _data' = _data
            /\ instance' = instance ]_vars

C12_Witness ==
    /\ op.n = "event"
    /\ op.a = "dragend"
    /\ instance[op.c] = op.c
    /\ out = <<Effect("emit", op.c, "dragEnd", "dragend", op.c)>>

\* C13: on a native blur event a registered touched callback is invoked
\* exactly once and before the blur output is emitted; without one the blur
\* output is emitted all the same; no other event invokes the callback.
C13_TouchedOnBlurOnly ==
    /\ (op.n = "event" /\ op.a = "blur") =>
          out = (IF onTouched[op.c]
                 THEN <<Effect("cb", op.c, "onTouched", "", op.c)>>
                 ELSE <<>>)
                \o <<Effect("emit", op.c, "blur", "blur", op.c)>>
    /\ (\E i \in DOMAIN out : out[i].k = "cb" /\ out[i].n = "onTouched") =>
          op.n = "event" /\ op.a = "blur"

C13_Witness ==
    /\ op.n = "event"
    /\ op.a = "blur"
    /\ onTouched[op.c]
    /\ Len(out) = 2
    /\ out[1].n = "onTouched"
    /\ out[2].n = "blur"

\* Positions of `out` where component c's registered change callback ran.
ChangeCallbacks(c) ==
    {i \in DOMAIN out : out[i].k = "cb" /\ out[i].c = c /\ out[i].n = "onChange"}

\* C14 as stated: whenever a run leaves the component's data value different
\* from what it was, the registered change callback has been invoked.
C14_OnChangeWheneverDataDiffers ==
    \A c \in Comp :
        (op.c = c /\ onChange[c] /\ _data[c] # op.was) => ChangeCallbacks(c) # {}

\* C14 amended: the registered change callback is invoked exactly where
\* dataChange is emitted, right after it and with the same value; that is the
\* case whenever a run of the change handler leaves the data value different.
C14_OnChangeWithDataChange ==
    \A c \in Comp :
        /\ \A i \in Emits(c, "dataChange") :
              onChange[c] =>
                  /\ i + 1 \in DOMAIN out
                  /\ out[i + 1] = Effect("cb", c, "onChange", out[i].a, out[i].e)
        /\ \A j \in ChangeCallbacks(c) :
              /\ onChange[c]
              /\ j - 1 \in Emits(c, "dataChange")
              /\ out[j - 1].a = out[j].a
        /\ (ChangeHandlerRan(c) /\ onChange[c] /\ _data[c] # op.was) =>
              \E j \in ChangeCallbacks(c) : out[j].a = _data[c]

C14_Witness ==
    \E c \in Comp :
        /\ op.n = "edit"
        /\ op.c = c
        /\ onChange[c]
        /\ _data[c] # op.was
        /\ ChangeCallbacks(c) # {}

\* C15: on the mock transfer payload, setData('Text', v) makes
\* getData('text/plain') return v and setData('text/plain', v) makes
\* getData('Text') return v; a clearData('Text') that follows setData('Text', v)
\* leaves no value stored under 'Text' or 'text/plain' and neither of them in
\* the types list.
C15_AliasMirroredAndCleared ==
    [][ /\ (op'.n = "transfer.setData" /\ op'.a \in {"Text", "text/plain"}) =>
              /\ MockGetData(transfer', "text/plain") = op'.was
              /\ MockGetData(transfer', "Text") = op'.was
        /\ ( /\ op.n = "transfer.setData" /\ op.a = "Text"
             /\ op'.n = "transfer.clearData" /\ op'.a = "Text" ) =>
              /\ MockGetData(transfer', "Text") = Undefined
              /\ MockGetData(transfer', "text/plain") = Undefined
              /\ \A i \in DOMAIN transfer'.types :
                    transfer'.types[i] \notin {"Text", "text/plain"} ]_vars

\* The run named by op is a call of setDataMultipleTimes on an inline editor.
InlineCall ==
    /\ op.n = "setDataMultipleTimes"
    /\ type[job.editor] = "inline"

\* Positions of `out` where the promise of setDataMultipleTimes was resolved.
Resolves == {i \in DOMAIN out : out[i].k = "resolve"}

\* C16 as stated: on an inline editor setDataMultipleTimes calls editor.setData
\* once per string, in the order given, within the call itself (no timer is
\* set), then resolves; the content is then the last string given.
C16_InlineSetsAllThenContentIsLast ==
    InlineCall =>
        /\ SetDataArgs(out) = job.given
        /\ job.timer = <<>>
        /\ job.resolved = 1
        /\ Resolves = {Len(out)}
        /\ job.given # <<>> => content[job.editor] = job.given[Len(job.given)]

\* C16 amended: as stated, but the content is then the editor's serialization
\* of the last string given.
C16_InlineSetsAllThenContentIsSerializedLast ==
    InlineCall =>
        /\ SetDataArgs(out) = job.given
        /\ job.timer = <<>>
        /\ job.resolved = 1
        /\ Resolves = {Len(out)}
        /\ job.given # <<>> => content[job.editor] = Norm(job.given[Len(job.given)])

C16_Witness ==
    /\ InlineCall
    /\ job.given = <<"<p>x</p>", Raw>>
    /\ job.resolved = 1
    /\ content[job.editor] = "<p>x</p>"

\* s is a prefix of t.
IsPrefix(s, t) == Len(s) <= Len(t) /\ s = SubSeq(t, 1, Len(s))

\* C17: on a non-inline editor setDataMultipleTimes calls editor.setData once
\* per string in the order given, every call in a timer step of its own (none
\* in the call itself, at most one per timer step); the promise resolves once,
\* in a timer step after the last call; for an empty array it resolves in the
\* first timer step, with no call of setData.
C17_ClassicSetsOnePerTimer ==
    (job.editor # NoEditor /\ type[job.editor] # "inline") =>
        /\ op.n = "setDataMultipleTimes" =>
              /\ Calls("setData") = {}
              /\ Resolves = {}
              /\ Len(job.timer) = 1
        /\ op.n = "timeout" =>
              /\ Cardinality(Calls("setData")) <= 1
              /\ Cardinality(Calls("setData")) + Cardinality(Resolves) = 1
        /\ IsPrefix(job.calls, job.given)
        /\ job.resolved <= 1
        /\ job.resolved = 1 <=> (job.timer = <<>> /\ job.calls = job.given)
        /\ Len(job.timer) <= 1
        /\ \A i \in DOMAIN job.timer : job.timer[i].ms = Delay

\* The job of a non-inline editor has resolved.
ClassicResolved ==
    /\ job.editor # NoEditor
    /\ type[job.editor] # "inline"
    /\ job.resolved = 1

\* C17 as stated: besides the order and the timer steps of the calls, the
\* promise of a non-inline editor resolves only after the last string has been
\* applied, that is, when the editor is not still loading a setData.
C17_ClassicResolvesAfterLastApplied ==
    /\ C17_ClassicSetsOnePerTimer
    /\ ClassicResolved => ~loading[job.editor]

\* At the resolution the editor has been handed the last string: it holds it,
\* still loading or serialized.
ResolvedHoldsLast ==
    (ClassicResolved /\ op.n = "timeout" /\ job.given # <<>>) =>
        LET last == job.given[Len(job.given)]
        IN  content[job.editor] = IF loading[job.editor] THEN last ELSE Norm(last)

\* C17, amended: on a non-inline editor the calls of editor.setData are made
\* one per timer step in the order given, and the promise resolves once, in a
\* timer step after the last call; the editor has then been handed the last
\* string, which it may still be loading.
C17_ClassicResolvesAfterLastCall ==
    /\ C17_ClassicSetsOnePerTimer
    /\ ResolvedHoldsLast

C17_Witness ==
    /\ job.editor # NoEditor
    /\ type[job.editor] # "inline"
    /\ op.n = "timeout"
    /\ job.given = <<Raw, "">>
    /\ job.calls = job.given
    /\ job.resolved = 1
    /\ loading[job.editor]

\* The values minimist collects for --url and -u from a command line.
UrlValues(argv) == Minimist(argv, NoOptions).url

\* C18: the launcher spawns the test command once, with the parsed flags
\* (no alias key u, url kept) JSON-encoded in CK_OPTIONS, and it exits with the
\* exit code of the spawned process.
C18_SpawnsOnceAndExitsWithChildCode ==
    /\ launcher.stage # "idle" =>
          /\ launcher.spawns = 1
          /\ launcher.options.u = <<>>
          /\ launcher.options.url = UrlValues(launcher.argv)
          /\ launcher.env = Stringify(launcher.options)
          /\ \A i \in DOMAIN launcher.env : launcher.env[i] # "\"u\""
    /\ launcher.stage = "exited" => launcher.exit = launcher.child

\* C19: the configuration handed to the construction entry point is the
\* user's merged over the default delayIfDetached: true (the user's
\* delayIfDetached wins), and createEditor leaves the user's configuration
\* object and what it refers to as they were: the instanceReady entry of its
\* `on` map is the same before and after.
C19_ConfigMergedAndNotMutated ==
    [][ (op'.n = "then" /\ edStatus'[op'.c] = "constructed") =>
            /\ \E i \in DOMAIN out' :
                  /\ out'[i].k = "call"
                  /\ out'[i].n \in {"replace", "inline"}
                  /\ out'[i].a = (IF config[op'.c] = 2 THEN "false" ELSE "true")
            /\ onInstanceReady' = onInstanceReady ]_vars

\* C20: with an instance, reading readOnly returns instance.readOnly and
\* writing it calls instance.setReadOnly at once and leaves the stored flag
\* alone; without an instance, writing stores the value and calls nothing, and
\* reading returns the stored value, which is null until the first such write.
C20_ReadOnlyDelegated ==
    [][ /\ op'.n = "readOnly" =>
              IF instance[op'.c] # NoEditor
              THEN /\ out' = <<Effect("call", op'.c, "setReadOnly", op'.a, instance[op'.c])>>
                   /\ edReadOnly'[instance[op'.c]] = op'.a
                   /\ _readOnly' = _readOnly
              ELSE /\ out' = <<>>
                   /\ _readOnly' = [_readOnly EXCEPT ![op'.c] = op'.a]
                   /\ edReadOnly' = edReadOnly
        /\ op'.n = "getReadOnly" =>
              /\ Len(out') = 1
              /\ out'[1].k = "return"
              /\ out'[1].a = IF instance[op'.c] # NoEditor
                             THEN edReadOnly[instance[op'.c]]
                             ELSE _readOnly[op'.c]
              /\ _readOnly' = _readOnly /\ edReadOnly' = edReadOnly
        /\ _readOnly' # _readOnly => op'.n = "readOnly" ]_vars

C20_Witness ==
    /\ op.n = "getReadOnly"
    /\ instance[op.c] # NoEditor
    /\ _readOnly[op.c] = Null
    /\ edReadOnly[instance[op.c]] = "true"
    /\ out[1].a = "true"

\* The calls of a construction entry point (CKEDITOR.inline / CKEDITOR.replace)
\* and the host elements appended, in `out`.
EntryCalls == Calls("inline") \cup Calls("replace")
Appended == {i \in DOMAIN out : out[i].k = "dom" /\ out[i].n = "appendChild"}

\* C21: a continuation of the namespace promise that runs after ngOnDestroy
\* does nothing (no element appended, no entry point called, no editor, the
\* handle unset, then and ever after); one that runs before it invokes
\* createEditor exactly once (one element appended, one entry point called).
C21_ContinuationAfterDestroyDoesNothing ==
    /\ \A c \in Comp :
          stage[c] = "abandoned" =>
              /\ instance[c] = NoEditor
              /\ edStatus[c] = "none"
    /\ op.n = "then" =>
          IF _destroyed[op.c]
          THEN /\ out = <<>>
               /\ stage[op.c] = "abandoned"
          ELSE /\ Cardinality(Appended) = 1
               /\ Cardinality(EntryCalls) = 1
               /\ \A i \in Appended \cup EntryCalls : out[i].c = op.c
               /\ stage[op.c] \in {"created", "thrown"}

C21_Witness ==
    /\ op.n = "then"
    /\ _destroyed[op.c]
    /\ stage[op.c] = "abandoned"
    /\ out = <<>>
    /\ instance[op.c] = NoEditor

\* The outputs of component handlers (everything but namespaceLoaded).
HandlerEmits == {i \in DOMAIN out : out[i].k = "emit" /\ out[i].n # "namespaceLoaded"}

\* The calls of the user's config.on.instanceReady function.
UserCallbacks == {i \in DOMAIN out : out[i].k = "cb" /\ out[i].n = "userInstanceReady"}

\* Component c's ready is still to come: its editor has not fired
\* instanceReady, or the completion callback of the initial setData is pending.
ReadyPending(c) ==
    \/ edStatus[c] = "constructed"
    \/ \E i \in DOMAIN cbs[c] : cbs[c][i].c = c

\* The order of the effects of one run, as C22 states it.
C22_Order ==
    /\ \A i \in HandlerEmits :
          LET c == out[i].c
              e == out[i].e
          IN  /\ e # NoEditor
              /\ IF op.n = "instanceReady"
                 THEN /\ \E j \in 1..(i - 1) :
                            /\ out[j] = Effect("call", c, "setReadOnly", edReadOnly[e], e)
                            /\ edReadOnly[e] = IF _readOnly[c] # Null THEN _readOnly[c]
                                               ELSE defaultReadOnly[e]
                      /\ \E j \in 1..(i - 1) :
                            out[j].k = "call" /\ out[j].c = c /\ out[j].n = "on"
                 ELSE \E j \in DOMAIN subs[e] : subs[e][j].c = c
    /\ \A c \in Comp : \A i \in Emits(c, "ready") :
          /\ Cardinality(Emits(c, "ready")) = 1
          /\ out[i].a = "instanceReady"
          /\ IF edHandler[out[i].e].user
             THEN /\ i > 1
                  /\ out[i - 1] = Effect("cb", 0, "userInstanceReady", "instanceReady", out[i].e)
                  /\ Cardinality(UserCallbacks) = 1
             ELSE UserCallbacks = {}
          /\ IF op.n = "instanceReady"
             THEN op.was # Null =>
                     /\ type[out[i].e] = "inline"
                     /\ \E j \in 1..(i - 1) :
                           out[j] = Effect("call", 0, "setData", op.was, out[i].e)
             ELSE op.n = "dataReady" /\ type[out[i].e] = "classic"
    /\ \A i \in UserCallbacks :
          \E c \in Comp : i + 1 \in Emits(c, "ready")

\* C22: every output of a component's handlers comes after the resolved
\* read-only flag was applied to the instance and the forwarders were
\* registered; the user's instanceReady function, if there is one, is called
\* once, with the instanceReady event, immediately before ready is emitted
\* with that event, and ready is emitted once in the component's life; with
\* initial data, ready comes only after the completion of the initial setData.
C22_ReadyLastAndOnce ==
    [][ /\ C22_Order'
        /\ \A c \in Comp :
              /\ Emits(c, "ready")' # {} => ReadyPending(c) /\ ~ReadyPending(c)'
              /\ (edStatus[c] # "none" /\ ~ReadyPending(c)) => ~ReadyPending(c)' ]_vars

C22_Witness ==
    /\ op.n = "dataReady"
    /\ op.was # Null
    /\ type[op.c] = "classic"
    /\ undoManager[op.c]
    /\ Len(out) >= 3
    /\ out[Len(out)] = Effect("emit", op.c, "ready", "instanceReady", op.c)
    /\ out[Len(out) - 1] = Effect("cb", 0, "userInstanceReady", "instanceReady", op.c)
    /\ Calls("unlock") # {}

\* The run named by op ran the completion callback of the initial setData.
InitialCallbackRan ==
    \/ op.n = "dataReady"
    \/ op.n = "instanceReady" /\ op.was # Null /\ type[op.c] = "inline"

\* C23: with initial data and an undo manager the manager is locked right
\* before the initial setData and unlocked once, in the completion callback,
\* before ready; a live editor's manager is locked exactly while that callback
\* is pending (so never from ready onwards).  The callback fires a synthetic
\* event only when the cache differs from the instance's data (the change
\* handler then emits dataChange), 'change' with an undo manager and
\* 'dataReady' without, and after it the cache equals the instance's data.
C23_LockBalancedAndSyntheticEvent ==
    /\ \A e \in Editor :
          /\ lock[e] \in {0, 1}
          /\ edStatus[e] = "ready" =>
                (lock[e] = 1 <=> (undoManager[e] /\ ReadyPending(e)))
    /\ \A i \in Calls("lock") :
          /\ Calls("lock") = {i}
          /\ op.n = "instanceReady" /\ op.was # Null
          /\ undoManager[out[i].e]
          /\ i < Len(out)
          /\ out[i + 1] = Effect("call", 0, "setData", op.was, out[i].e)
    /\ (op.n = "instanceReady" /\ op.was # Null /\ undoManager[op.c]) =>
          Calls("lock") # {}
    /\ \A i \in Calls("unlock") :
          /\ Calls("unlock") = {i}
          /\ InitialCallbackRan
          /\ \A j \in Calls("setData") \cup Calls("lock") : j < i
          /\ \E j \in Emits(out[i].c, "ready") : i < j
    /\ \A c \in Comp : \A j \in Emits(c, "ready") :
          InitialCallbackRan =>
              /\ undoManager[out[j].e] => \E i \in Calls("unlock") : i < j
              /\ _data[c] = content[out[j].e]
    /\ \A i \in Calls("fire") :
          /\ InitialCallbackRan
          /\ out[i].a = IF undoManager[out[i].e] THEN "change" ELSE "dataReady"
          /\ \E j \in Emits(out[i].c, "dataChange") : i < j
          /\ \A j \in Calls("unlock") : i < j

C23_Witness ==
    /\ op.n = "instanceReady"
    /\ op.was # Null
    /\ undoManager[op.c]
    /\ lock[op.c] = 0
    /\ \E i \in Calls("lock"), j \in Calls("setData"), k \in Calls("unlock"),
          l \in Emits(op.c, "ready") : i < j /\ j < k /\ k < l

\* What the bindings of a ready editor look like and do, as C24 states it.
C24_Bound ==
    \A e \in Editor :
        edStatus[e] = "ready" =>
            /\ Len(subs[e]) = 1
            /\ subs[e][1].c = e
            /\ subs[e][1].ev = IF undoManager[e] THEN "change" ELSE "selectionCheck"
            /\ BoundTo(e, "change") # BoundTo(e, "selectionCheck")
            /\ (op.c = e /\ op.n = "event" /\ op.a = "dataReady") =>
                  Emits(e, "dataReady") # {}
            /\ (op.c = e /\ op.n = "event" /\ op.a = "change") =>
                  undoManager[e] /\ Emits(e, "change") # {}
            /\ (op.c = e /\ op.n = "event" /\ op.a = "selectionCheck" /\ undoManager[e]) =>
                  out = <<>>
            /\ (op.c = e /\ op.n = "edit" /\ ~undoManager[e]) =>
                  _data[e] = content[e]

\* C24: once subscribed, the change handler of a component is bound to native
\* dataReady and to exactly one of change (with an undo manager) and
\* selectionCheck (without), and the bindings stay as they are until the
\* editor is destroyed.
C24_BoundToDataReadyAndOneOther ==
    [][ /\ C24_Bound'
        /\ \A e \in Editor :
              subs[e] # <<>> => (subs'[e] = subs[e] \/ edStatus'[e] = "destroyed") ]_vars

C24_Witness ==
    /\ op.n = "edit"
    /\ ~undoManager[op.c]
    /\ BoundTo(op.c, "selectionCheck")
    /\ ~BoundTo(op.c, "change")
    /\ Emits(op.c, "dataChange") # {}

\* Effect i of the run is component c's emission of output n for editor e.
IsEmit(i, c, n, e) ==
    /\ i \in DOMAIN out
    /\ out[i].k = "emit" /\ out[i].c = c /\ out[i].n = n /\ out[i].e = e

\* Effect i belongs to the part of the change handler that follows the
\* comparison: a dataChange emission or an onChange call of component c.
AfterComparison(i, c) ==
    /\ i \in DOMAIN out
    /\ out[i].c = c
    /\ \/ out[i].k = "emit" /\ out[i].n = "dataChange"
       \/ out[i].k = "cb" /\ out[i].n = "onChange"

\* C25: in a run of the change handler the instance's data is read first;
\* change or dataReady is emitted while the cache still holds the old value;
\* if the data read equals the cache nothing follows; otherwise the cache is
\* updated, then dataChange is emitted with the data read (the data getter
\* returns that value during the emission), then onChange, if registered, is
\* called with the same value.
C25_ChangeHandlerOrder ==
    \A c \in Comp : \A i \in DOMAIN out :
        LET e == out[i].e
        IN  /\ (IsEmit(i, c, "change", e) \/ IsEmit(i, c, "dataReady", e)) =>
                  /\ out[i].a = out[i].n
                  /\ IF ctx[i].data = content[e]
                     THEN ~AfterComparison(i + 1, c)
                     ELSE /\ IsEmit(i + 1, c, "dataChange", e)
                          /\ out[i + 1].a = content[e]
            /\ IsEmit(i, c, "dataChange", e) =>
                  /\ ctx[i].data = out[i].a
                  /\ \/ /\ IsEmit(i - 1, c, "change", e) \/ IsEmit(i - 1, c, "dataReady", e)
                        /\ ctx[i - 1].data # out[i].a
                     \/ /\ i = 1
                        /\ BoundTo(c, "selectionCheck")
                        /\ op.n = "edit" \/ (op.n = "event" /\ op.a = "selectionCheck")
                  /\ IF onChange[c]
                     THEN /\ i + 1 \in DOMAIN out
                          /\ out[i + 1] = Effect("cb", c, "onChange", out[i].a, e)
                          /\ ctx[i + 1].data = out[i].a
                     ELSE ~AfterComparison(i + 1, c)
            /\ (out[i].k = "cb" /\ out[i].n = "onChange" /\ out[i].c = c) =>
                  /\ IsEmit(i - 1, c, "dataChange", e)
                  /\ out[i - 1].a = out[i].a

C25_Witness ==
    /\ Len(out) = 3
    /\ IsEmit(1, op.c, "change", op.c)
    /\ IsEmit(2, op.c, "dataChange", op.c)
    /\ out[3] = Effect("cb", op.c, "onChange", out[2].a, op.c)
    /\ ctx[1].data # out[2].a
    /\ ctx[2].data = out[2].a
    /\ _data[op.c] = out[2].a

\* What a write of the data property (op.n = "data": op.a written over the
\* cached op.was) has called and left in the cache.
C26_WriteEffects ==
    op.n = "data" =>
        LET c == op.c
            e == instance[c]
        IN  IF op.a = op.was
            THEN out = <<>> /\ _data[c] = op.was
            ELSE IF e # NoEditor
                 THEN /\ Calls("setData") = {1}
                      /\ out[1] = Effect("call", 0, "setData", op.a, e)
                      /\ _data[c] = content[e]
                 ELSE /\ out = <<>>
                      /\ _data[c] = op.a

\* A write leaves the read-only flag, the destroyed latch and the instance
\* handle as they were.
C26_WriteLeavesAlone ==
    op'.n = "data" =>
        /\ _readOnly' = _readOnly
        /\ edReadOnly' = edReadOnly
        /\ _destroyed' = _destroyed
        /\ instance' = instance

\* C26 as stated: a write is a no-op for an identical value, otherwise one
\* setData call and the cache re-read from the instance, or a local cache
\* without an instance; no output is emitted during a write, and the read-only
\* flag, the latch and the handle stay as they are.
C26_WriteEmitsNothing ==
    [][ /\ C26_WriteEffects'
        /\ C26_WriteLeavesAlone
        /\ op'.n = "data" => \A i \in DOMAIN out' : out'[i].k # "emit" ]_vars

\* C26 amended: as above, but only the setter's own statements emit nothing:
\* an inline instance fires dataReady inside setData, so the change handler
\* runs during the write and emits dataReady and, if the data read differs
\* from the cache, dataChange (calling onChange); nothing else happens, and on
\* a classic instance nothing but the setData call.
C26_WriteEmitsOnlyThroughInlineDataReady ==
    [][ /\ C26_WriteEffects'
        /\ C26_WriteLeavesAlone
        /\ (op'.n = "data" /\ out' # <<>>) =>
              LET c == op'.c
                  e == instance[c]
              IN  IF type[e] = "inline"
                  THEN /\ Len(out') >= 2
                       /\ out'[2] = Effect("emit", c, "dataReady", "dataReady", e)
                       /\ ctx'[2].zone = "run"
                       /\ \A i \in 3..Len(out') :
                             /\ out'[i].c = c
                             /\ \/ out'[i].k = "emit" /\ out'[i].n = "dataChange"
                                \/ out'[i].k = "cb" /\ out'[i].n = "onChange"
                  ELSE Len(out') = 1 ]_vars

C26_Witness ==
    /\ op.n = "data"
    /\ op.a # op.was
    /\ instance[op.c] = op.c
    /\ type[op.c] = "inline"
    /\ out[1] = Effect("call", 0, "setData", op.a, op.c)
    /\ Emits(op.c, "dataReady") # {}
    /\ Emits(op.c, "dataChange") # {}
    /\ _data[op.c] = content[op.c]
    /\ _data[op.c] # op.a

\* C27: ngOnDestroy sets the destroyed latch; if it finds an instance it calls
\* that instance's destroy() once and clears the handle, otherwise it calls
\* nothing; no operation resets the latch; destroy() is called by ngOnDestroy
\* only and never on an editor that was destroyed before, so a repeated
\* ngOnDestroy makes no second call.
C27_DestroyOnceLatchOneWay ==
    [][ /\ \A c \in Comp : _destroyed[c] => _destroyed'[c]
        /\ op'.n = "ngOnDestroy" =>
              LET c == op'.c
                  e == instance[c]
              IN  /\ _destroyed'[c]
                  /\ instance'[c] = NoEditor
                  /\ IF e # NoEditor
                     THEN /\ out' = <<Effect("call", 0, "destroy", "", e)>>
                          /\ edStatus[e] = "ready"
                          /\ edStatus'[e] = "destroyed"
                     ELSE /\ out' = <<>>
                          /\ edStatus' = edStatus
        /\ (\E i \in DOMAIN out' : out'[i].k = "call" /\ out'[i].n = "destroy") =>
              op'.n = "ngOnDestroy" ]_vars

C27_Witness ==
    /\ op.n = "ngOnDestroy"
    /\ out = <<>>
    /\ _destroyed[op.c]
    /\ instance[op.c] = NoEditor
    /\ edStatus[op.c] = "destroyed"

\* C28: a call of createEditor (the continuation of a component that is not
\* destroyed) appends one new element of the configured tag name and then
\* calls one construction entry point with it and the merged configuration:
\* CKEDITOR.inline if and only if the type is 'inline', CKEDITOR.replace for
\* every other type; nothing else constructs an editor.
C28_OneEntryPointByType ==
    /\ (op.n = "then" /\ ~_destroyed[op.c]) =>
          LET c == op.c
          IN  /\ out = << Effect("dom", c, "appendChild", tagName[c], NoEditor),
                          Effect("call", c,
                                 IF type[c] = "inline" THEN "inline" ELSE "replace",
                                 MergedDelayIfDetached(c), c) >>
              /\ Calls("inline") # {} <=> type[c] = "inline"
              /\ Calls("replace") # {} <=> type[c] # "inline"
              /\ edStatus[c] = "constructed"
              /\ Head(edHandler[c].chain) = c
    /\ (EntryCalls \cup Appended) # {} => op.n = "then"

C28_Witness ==
    /\ op.n = "then"
    /\ type[op.c] = "divarea"
    /\ tagName[op.c] = "div"
    /\ config[op.c] = 2
    /\ out = << Effect("dom", op.c, "appendChild", "div", NoEditor),
                Effect("call", op.c, "replace", "false", op.c) >>

\* C29: every emission and every call of onChange, onTouched and the user's
\* instanceReady function made from a callback of the native editor (all
\* outputs but namespaceLoaded, which the script loader's callback emits)
\* happens inside an ngZone.run; the element is appended and the construction
\* entry point called inside ngZone.runOutsideAngular, and so is
\* instance.destroy().
C29_ZoneOfEveryEffect ==
    \A i \in DOMAIN out :
        /\ (out[i].k = "emit" /\ out[i].n # "namespaceLoaded") => ctx[i].zone = "run"
        /\ out[i].k = "cb" => ctx[i].zone = "run"
        /\ i \in EntryCalls \cup Appended \cup Calls("destroy") => ctx[i].zone = "outside"

C29_Witness ==
    /\ op.n = "event"
    /\ op.a = "blur"
    /\ Len(out) = 2
    /\ out[1] = Effect("cb", op.c, "onTouched", "", op.c)
    /\ out[2] = Effect("emit", op.c, "blur", "blur", op.c)
    /\ ctx[1].zone = "run"
    /\ ctx[2].zone = "run"

\* The native dataReady was fired in the run: the component bound to the
\* editor emitted its dataReady output.
DataReadyFired == \E i \in DOMAIN out : out[i].k = "emit" /\ out[i].n = "dataReady"

\* The promise resolutions of the run.
Resolved(n) == {i \in DOMAIN out : out[i].k = "resolve" /\ out[i].n = n}

\* C30: whenDataReady adds its once-listener first and then calls the trigger
\* before it returns, so a dataReady that the trigger raises synchronously (an
\* inline editor's setData) resolves the promise within the call; the promise
\* resolves at the first dataReady fired after the registration, once, and not
\* without one.  whenEvent subscribes, and its promise resolves at the first
\* emission of the named output after the call, and not without one.
C30_WaitsResolveOnFirstEvent ==
    [][ /\ op'.n = "whenDataReady" =>
              LET e == wait'.editor
                  t == op'.a
              IN  /\ out'[1] = Effect("call", 0, "once", "dataReady", e)
                  /\ IF t = Null
                     THEN Len(out') = 1
                     ELSE /\ out'[2] = Effect("cb", 0, "callback", t, e)
                          /\ out'[3] = Effect("call", 0, "setData", t, e)
                  /\ wait'.dr = IF t # Null /\ type[e] = "inline"
                                THEN "resolved" ELSE "pending"
                  /\ wait'.dr = "resolved" <=> DataReadyFired'
        /\ wait.dr = "pending" => (wait'.dr = "resolved" <=> DataReadyFired')
        /\ wait.dr = "resolved" => wait'.dr = "resolved"
        /\ IF wait.dr # "resolved" /\ wait'.dr = "resolved"
           THEN \E i \in Resolved("whenDataReady")' :
                   /\ Resolved("whenDataReady")' = {i}
                   /\ \E j \in 1..(i - 1) :
                         out'[j].k = "emit" /\ out'[j].n = "dataReady"
           ELSE Resolved("whenDataReady")' = {}
        /\ op'.n = "whenEvent" =>
              /\ out' = <<Effect("call", wait'.comp, "subscribe", op'.a, NoEditor)>>
              /\ wait'.name = op'.a
              /\ wait'.ev = "pending"
        /\ (wait.ev = "none" /\ op'.n # "whenEvent") => wait'.ev = "none"
        /\ wait.ev = "pending" =>
              (wait'.ev = "resolved" <=> Emits(wait.comp, wait.name)' # {})
        /\ wait.ev = "resolved" => wait'.ev = "resolved"
        /\ IF wait.ev = "pending" /\ wait'.ev = "resolved"
           THEN \E i \in Resolved("whenEvent")' :
                   /\ Resolved("whenEvent")' = {i}
                   /\ i > 1
                   /\ out'[i - 1].k = "emit"
                   /\ out'[i - 1].c = wait.comp
                   /\ out'[i - 1].n = wait.name
                   /\ \A j \in 1..(i - 2) :
                         ~(out'[j].k = "emit" /\ out'[j].n = wait.name)
           ELSE Resolved("whenEvent")' = {} ]_vars

C30_Witness ==
    /\ op.n = "whenDataReady"
    /\ op.a = "x"
    /\ type[wait.editor] = "inline"
    /\ wait.dr = "resolved"
    /\ out[1] = Effect("call", 0, "once", "dataReady", wait.editor)
    /\ out[2] = Effect("cb", 0, "callback", "x", wait.editor)
    /\ out[Len(out)] = Effect("resolve", 0, "whenDataReady", "", wait.editor)
    /\ content[wait.editor] = "<p>x</p>"

(***************************************************************************)
(* C31: no asynchronous step is repeated                                   *)
(***************************************************************************)

\* C31: for each component, over any sequence of lifecycle calls and native
\* callbacks, createEditor is invoked at most once and the ready output is
\* emitted at most once.
C31_CreateAndReadyAtMostOnce ==
    \A c \in Comp : tally[c].createEditor <= 1 /\ tally[c].ready <= 1

\* createEditor alone is invoked at most once for each component.
C31_CreateAtMostOnce ==
    \A c \in Comp : tally[c].createEditor <= 1

(***************************************************************************)
(* C32: liveness of creation                                               *)
(***************************************************************************)

\* The component is in state Ready and has emitted ready.
Ready(c) ==
    /\ instance[c] # NoEditor
    /\ edStatus[instance[c]] = "ready"
    /\ tally[c].ready >= 1

\* C32: if the namespace promise resolves, the native library delivers
\* instanceReady and the completion callback of every setData it was given, and
\* ngOnDestroy is never called, then the component eventually reaches Ready and
\* emits ready, with and without initial data and with and without an undo
\* manager.
C32_EventuallyReady ==
    \A c \in Comp : (stage[c] \in {"waiting", "resolved"}) ~> Ready(c)

\* Ready was reached through the completion callback of the initial setData.
C32_Witness ==
    /\ Ready(1)
    /\ op.n = "dataReady"
    /\ Emits(1, "ready") # {}

(***************************************************************************)
(* C33: no editor outlives its component                                   *)
(***************************************************************************)

\* No callback of the editor that component c created is still to come.
Delivered(c) ==
    /\ edStatus[c] # "constructed"
    /\ ~loading[c]
    /\ cbs[c] = <<>>

\* C33: in every state after ngOnDestroy has run and the pending callbacks
\* have been delivered, the instance handle of the component is null and the
\* editor its createEditor constructed, if any, has been destroyed.
C33_NoEditorOutlivesComponent ==
    \A c \in Comp :
        (_destroyed[c] /\ Delivered(c)) =>
            /\ instance[c] = NoEditor
            /\ edStatus[c] \in {"none", "destroyed"}

(***************************************************************************)
(* C34: no handler dereferences a null instance handle                     *)
(***************************************************************************)

\* C34: whenever the internal change handler or the completion callback of the
\* initial setData runs, also for an event delivered after ngOnDestroy has
\* cleared the handle, this.instance is non-null where getData() is called on
\* it: no step throws a TypeError.
C34_NoNullInstanceDereference ==
    \A i \in Throws : out[i].n # "TypeError"

(***************************************************************************)
(* C35: two-way binding does not feed back                                 *)
(***************************************************************************)

\* The writes the host made inside a dataChange emission of the last step.
WriteBacks == {i \in DOMAIN out : out[i].k = "cb" /\ out[i].n = "writeBack"}

\* C35: when the component emits dataChange with value v and the host, inside
\* that emission, writes v back to data, the write is a no-op: it returns at
\* once, with no instance.setData call, no further dataChange emission and no
\* onChange call in between, and the cache is v before and after it.
C35_WriteBackIsNoOp ==
    \A i \in WriteBacks :
        /\ i > 1
        /\ out[i - 1].k = "emit" /\ out[i - 1].n = "dataChange"
        /\ out[i - 1].a = out[i].a
        /\ i + 1 \in DOMAIN out
        /\ out[i + 1].k = "return" /\ out[i + 1].n = "writeBack"
        /\ ctx[i].data = out[i].a
        /\ ctx[i + 1].data = out[i].a

\* The user's edit was emitted as dataChange, written back by the host and
\* then handed to onChange.
C35_Witness ==
    /\ op.n = "edit"
    /\ WriteBacks # {}
    /\ \E j \in DOMAIN out : out[j].k = "cb" /\ out[j].n = "onChange"

(***************************************************************************)
(* C36: initial data that is already normalized                            *)
(***************************************************************************)

\* Component c is being initialized with data d, written before creation and
\* not since: its editor has fired instanceReady, and ready is still to come or
\* was emitted by the last step.
InitializingWith(c, d) ==
    /\ written[c] = d
    /\ edStatus[c] = "ready"
    /\ ReadyPending(c) \/ Emits(c, "ready") # {}

\* C36: when the initial data is already in the editor's normalized form,
\* initialization emits no dataChange, calls no onChange, fires no synthetic
\* change or dataReady from the completion callback, and the cached data
\* equals the supplied value when ready is emitted.
C36_NormalizedInitialDataIsQuiet ==
    \A c \in Comp, d \in Serialized :
        InitializingWith(c, d) =>
            /\ Emits(c, "dataChange") = {}
            /\ \A i \in DOMAIN out : ~(out[i].k = "cb" /\ out[i].n = "onChange")
            /\ Calls("fire") = {}
            /\ Emits(c, "ready") # {} => _data[c] = d

\* A classic editor has loaded normalized initial data and ready was emitted,
\* with onChange registered.
C36_Witness ==
    /\ InitializingWith(1, "<p>x</p>")
    /\ op.n = "dataReady"
    /\ onChange[1]
    /\ Emits(1, "ready") # {}
    /\ Emits(1, "dataReady") # {}

(***************************************************************************)
(* C37: an external write of normalized data is not echoed                 *)
(***************************************************************************)

\* The last step emitted no dataChange for component c and called no onChange.
NoEcho(c) ==
    /\ Emits(c, "dataChange") = {}
    /\ \A i \in DOMAIN out : ~(out[i].k = "cb" /\ out[i].c = c /\ out[i].n = "onChange")

\* The step is a write of normalized data to component c while it has an
\* instance.
ExternalWrite(c) ==
    /\ instance[c] # NoEditor
    /\ op'.n = "data" /\ op'.c = c
    /\ op'.a \in Serialized

\* The step is the dataReady that a classic instance delivers after the
\* setter of such a write has returned.
DeferredDataReady(c) ==
    /\ instance[c] # NoEditor
    /\ written[c] = Late
    /\ loading[instance[c]]
    /\ content[instance[c]] \in Serialized
    /\ op'.n = "dataReady" /\ op'.c = instance[c]

\* C37: a write through writeValue(v) while an instance exists, where the
\* instance serializes v back unchanged, results in no dataChange emission and
\* no onChange call, neither during the write (the instance applies setData
\* before the setter reads getData()) nor when the native dataReady is
\* delivered after the setter has returned.
C37_ExternalWriteNeverEchoes ==
    [][\A c \in Comp : (ExternalWrite(c) \/ DeferredDataReady(c)) => NoEcho(c)']_vars

\* An instance that applies setData after the setter has returned does not
\* echo the write.
C37_DeferredWriteNeverEchoes ==
    [][\A c \in Comp :
          ((ExternalWrite(c) /\ type[instance[c]] # "inline") \/ DeferredDataReady(c))
              => NoEcho(c)']_vars

====
